---- MODULE Spec2Model ----
(***************************************************************************)
(* Feynman Learning System: the session state held by App (appState) and   *)
(* the handlers of PracticeSheetPane / TeachingPane that replace it, the   *)
(* ContextManager (tiered compression) and the continuation-code codec.    *)
(*                                                                         *)
(* Eight specifications share the variables:                               *)
(*   Spec      the interactive session (edits, validations, reset, save)   *)
(*   SpecDemo  a started session while the demo is opened and left         *)
(*   SpecCtx   ContextManager.buildContext / getCompressionAdvice          *)
(*   SpecTier  ContextManager.checkThreshold under any configuration       *)
(*   SpecCodec encodeState / decodeState                                   *)
(*   SpecStore StateManager: save, restore, checkpoints                    *)
(*   SpecRequest ClaudeService.makeRequest: retries and backoff            *)
(*   SpecSheet the completion shown for a session state                    *)
(***************************************************************************)
EXTENDS Integers, Sequences, FiniteSets, TLC

VARIABLES
  \* ---- App / PracticeSheetPane / TeachingPane
  appState,         \* useState value of App: the session state
  queue,            \* values passed to setAppState by the handler now running, not yet applied
  timers,           \* FieldComponent debounce timers of each field: a set of closures
  inflight,         \* validations awaiting claudeService.validateField
  research,         \* handleStartLearning awaiting claudeService: <<>> or <<closure>>
  validatingField,  \* useState value of PracticeSheetPane
  showDemo,         \* useState value of App: DemoPlayer is rendered in place of the panes
  storage,          \* localStorage[STATE_KEY]: <<>> or <<record>>
  checkpointSlot,   \* localStorage[CHECKPOINT_KEY]: <<>> or <<record>>
  everApproved,     \* history: the fields whose status has been approved in appState
  lastDone,         \* history: the validation whose handler ran last: <<>> or <<record>>
  \* ---- ContextManager
  thresholds,       \* SOFT_THRESHOLD, HARD_THRESHOLD, EMERGENCY_THRESHOLD as read at import
  lastBuild,        \* per newMessage option, the latest buildContext call: <<>> or <<record>>
  lastAdvice,       \* the latest getCompressionAdvice calls, newest first
  \* ---- continuation code
  codec,            \* the encodeState / decodeState run: <<>> or <<record>>
  \* ---- StateManager
  store,            \* the latest StateManager call and what was saved: <<>> or <<record>>
  \* ---- ClaudeService
  request,          \* the makeRequest call: <<>> or <<record>>
  \* ---- PracticeSheetPane / ProgressTracking
  sheet             \* what the panes show of a session state: <<>> or <<record>>

sessVars == <<appState, queue, timers, inflight, research, validatingField, showDemo,
              storage, checkpointSlot, everApproved, lastDone>>
ctxVars == <<thresholds, lastBuild, lastAdvice>>
nonSession == <<thresholds, lastBuild, lastAdvice, codec, store, request, sheet>>
vars == <<appState, queue, timers, inflight, research, validatingField, showDemo,
          storage, checkpointSlot, everApproved, lastDone,
          thresholds, lastBuild, lastAdvice, codec, store, request, sheet>>

(***************************************************************************)
(* Bounds of the model                                                     *)
(***************************************************************************)
MaxCompleted == 2     \* validations / researches whose token cost is added to tokenCount
MaxInflight == 2      \* validations in flight at once
MaxUnmounted == 1     \* timers and validations pending when the panes are unmounted

(***************************************************************************)
(* Session state (stateManager.js)                                         *)
(***************************************************************************)
NULL == "<null>"
UNDEFINED == "<undefined>"
STATE_VERSION == "1.0.0"

fieldOrder == <<"definition", "mechanism", "example", "analogy",
                "why_matters", "misconception", "integration">>
FieldNames == {fieldOrder[i] : i \in 1..Len(fieldOrder)}

indexOf(fieldName) == CHOOSE i \in 1..Len(fieldOrder) : fieldOrder[i] = fieldName

InitialField(isUnlocked) ==
  [value |-> "", status |-> "pending", unlocked |-> isUnlocked,
   attempts |-> <<>>, feedback |-> UNDEFINED]

createInitialState ==
  [version |-> STATE_VERSION,
   concept |-> NULL,
   modules |-> <<>>,
   currentModule |-> 0,
   fields |-> [f \in FieldNames |-> InitialField(f = "definition")],
   conversationHistory |-> <<>>,
   tokenCount |-> 0,
   startTime |-> NULL]

\* conversationHistory.slice(-10)
SliceLast(s, n) == IF Len(s) <= n THEN s ELSE SubSeq(s, Len(s) - n + 1, Len(s))

HISTORY_CAP == 10

\* A faulty variant: the first turns of the history are kept.
compressStateOldest(state) ==
  [version |-> state.version,
   concept |-> state.concept,
   modules |-> state.modules,
   currentModule |-> state.currentModule,
   fields |-> state.fields,
   conversationHistory |-> SubSeq(state.conversationHistory, 1,
                                  IF Len(state.conversationHistory) < HISTORY_CAP
                                  THEN Len(state.conversationHistory) ELSE HISTORY_CAP),
   tokenCount |-> state.tokenCount,
   startTime |-> state.startTime]

compressState(state) ==
  [version |-> state.version,
   concept |-> state.concept,
   modules |-> state.modules,
   currentModule |-> state.currentModule,
   fields |-> state.fields,
   conversationHistory |-> SliceLast(state.conversationHistory, HISTORY_CAP),
   tokenCount |-> state.tokenCount,
   startTime |-> state.startTime]

\* {...compressed, checkpoints: []}: the modelled fields are carried over as they are
decompressState(compressed) == compressed

\* A faulty variant: the old record is kept under the running version.
migrateStateCarriesOver(oldState) == [oldState EXCEPT !.version = STATE_VERSION]

migrateState(oldState) == createInitialState

\* A faulty variant: without the catch, the failed write reaches the caller.
saveStateUncaught(state, ok, slot) ==
  [slot |-> IF ok THEN <<compressState(state)>> ELSE slot,
   returned |-> TRUE,
   raised |-> ~ok,
   state |-> state]

\* saveState(state), ok = FALSE when localStorage.setItem throws: the content
\* of localStorage[STATE_KEY] after the call (a JSON text is held as the value
\* it parses to), the value returned, whether the call raised, and the
\* state object after the call
saveState(state, ok, slot) ==
  [slot |-> IF ok THEN <<compressState(state)>> ELSE slot,
   returned |-> ok,
   raised |-> FALSE,
   state |-> state]

\* restoreState: <<>> stands for the null result
restoreState(slot) ==
  IF slot = <<>> THEN <<>>
  ELSE IF slot[1].version # STATE_VERSION THEN <<migrateState(slot[1])>>
  ELSE <<decompressState(slot[1])>>

\* createCheckpoint(state) at Date.now() = now, ok = FALSE when
\* localStorage.setItem throws: the content of localStorage[CHECKPOINT_KEY]
\* after the call and the value returned (<<>> stands for null)
createCheckpoint(state, now, ok, slot) ==
  LET checkpoint == [timestamp |-> now, state |-> compressState(state),
                     tokenCount |-> state.tokenCount]
  IN [slot |-> IF ok THEN <<checkpoint>> ELSE slot,
      returned |-> IF ok THEN <<checkpoint>> ELSE <<>>]

\* A faulty variant: the main slot is read.
restoreCheckpointMainSlot(slot) ==
  IF storage = <<>> THEN <<>> ELSE <<decompressState(storage[1])>>

\* restoreCheckpoint: <<>> stands for the null result
restoreCheckpoint(slot) ==
  IF slot = <<>> THEN <<>> ELSE <<decompressState(slot[1].state)>>

(***************************************************************************)
(* PracticeSheetPane: every updater spreads the `state` of the render the  *)
(* handler was created in (its closure), not the current appState.         *)
(***************************************************************************)
Values == {" ", "it falls down"}
trim(value) == IF value = " " THEN "" ELSE value

RETRY_MESSAGE == "Validation failed. Please try again."

\* How the two requests of validateField end: the model's answer, or a body
\* JSON.parse rejects ("unparseable"), or makeRequest throwing once its
\* retries are used up ("unavailable"); an accuracy answer can also be JSON
\* without the strengths array ("misshapen").
Eli5Replies == {"passed", "rejected", "unparseable", "unavailable"}
AccuracyReplies == {"approved", "needs_revision", "unparseable", "unavailable", "misshapen"}

\* what SimplicityChecker finds in the text: jargon, a simplicity score
\* below 70, or neither
LocalFindings == {"jargon", "complex", "passed"}

\* what a validateField call meets: the local checks reject, or the ELI5
\* request and then the accuracy request are made
Replies ==
  {[local |-> l, eli5 |-> "passed", accuracy |-> "approved"] : l \in LocalFindings}
  \cup {[local |-> "passed", eli5 |-> e, accuracy |-> "approved"] : e \in Eli5Replies}
  \cup {[local |-> "passed", eli5 |-> "passed", accuracy |-> a] : a \in AccuracyReplies}

\* checkELI5Understanding: its catch is lenient
checkELI5Understanding(reply) ==
  IF reply = "rejected"
  THEN [passed |-> FALSE, suggestion |-> "suggestion"]
  ELSE [passed |-> TRUE, suggestion |-> NULL]

\* checkAccuracy: the parsed answer, or the fallback of its catch
checkAccuracy(reply) ==
  CASE reply \in {"approved", "needs_revision"} ->
         [status |-> reply, strengths |-> <<>>, suggestion |-> "suggestion"]
    [] reply = "misshapen" ->
         [status |-> "approved", strengths |-> UNDEFINED, suggestion |-> "suggestion"]
    [] OTHER ->
         [status |-> "analyzing", strengths |-> <<>>, suggestion |-> NULL]

\* SimplicityChecker.generateFeedback reads details.readingLevel.gradeLevel:
\* a TypeError when the details hold the jargon finding only
generateFeedbackThrows(details) == "readingLevel" \notin details

\* the model requests validateField makes, in order
RequestsIssued(reply) ==
  IF reply.local # "passed" THEN <<>>
  ELSE IF ~checkELI5Understanding(reply.eli5).passed THEN <<"eli5">>
  ELSE <<"eli5", "accuracy">>

\* validateField: the result it resolves with, or thrown when a TypeError is
\* raised: by generateFeedback at the jargon level, or by spreading
\* accuracyCheck.strengths
validateField(reply) ==
  LET eli5Check == checkELI5Understanding(reply.eli5)
      accuracyCheck == checkAccuracy(reply.accuracy)
  IN IF reply.local = "jargon"
     THEN \* feedback: generateFeedback({score: 0, details: {jargon: jargonCheck}})
          IF generateFeedbackThrows({"jargon"})
          THEN [thrown |-> TRUE, status |-> UNDEFINED, suggestion |-> UNDEFINED]
          ELSE [thrown |-> FALSE, status |-> "needs_revision", suggestion |-> "suggestion"]
     ELSE IF reply.local = "complex"
     THEN \* feedback: generateFeedback(simplicityResult)
          IF generateFeedbackThrows({"jargon", "readingLevel", "sentenceLength",
                                     "analogies", "conversational"})
          THEN [thrown |-> TRUE, status |-> UNDEFINED, suggestion |-> UNDEFINED]
          ELSE [thrown |-> FALSE, status |-> "needs_revision", suggestion |-> "suggestion"]
     ELSE IF ~eli5Check.passed
     THEN [thrown |-> FALSE, status |-> "needs_revision", suggestion |-> eli5Check.suggestion]
     ELSE IF accuracyCheck.strengths = UNDEFINED
     THEN [thrown |-> TRUE, status |-> UNDEFINED, suggestion |-> UNDEFINED]
     ELSE [thrown |-> FALSE, status |-> accuracyCheck.status,
           suggestion |-> accuracyCheck.suggestion]

\* validateField reaches its checkAccuracy call
AccuracyAsked(reply) ==
  \E i \in 1..Len(RequestsIssued(reply)) : RequestsIssued(reply)[i] = "accuracy"

DEFAULT_TOKENS == 500
ResearchTokens == {100}     \* research.tokenCount, as reported by the service

handleFieldUpdate(state, fieldName, value) ==
  [state EXCEPT !.fields[fieldName].value = value]

\* A faulty variant: a field is locked against edits once it is approved.
updateFieldStatusLocks(state, fieldName, status, feedback) ==
  [state EXCEPT !.fields[fieldName].status = status,
                !.fields[fieldName].feedback = feedback,
                !.fields[fieldName].unlocked = (status # "approved")]

updateFieldStatus(state, fieldName, status, feedback) ==
  [state EXCEPT !.fields[fieldName].status = status,
                !.fields[fieldName].feedback = feedback]

unlockNextField(state, fieldName) ==
  IF indexOf(fieldName) < Len(fieldOrder)
  THEN <<[state EXCEPT !.fields[fieldOrder[indexOf(fieldName) + 1]].unlocked = TRUE]>>
  ELSE <<>>

recordAttempt(state, fieldName, value, status) ==
  [state EXCEPT !.fields[fieldName].attempts =
                   Append(@, [value |-> value, status |-> status])]

\* The values handleFieldValidate passes to onStateUpdate before its await.
ValidateStartUpdates(state, fieldName, value) ==
  <<updateFieldStatus(state, fieldName, "analyzing", NULL)>>

\* A faulty variant: the next field is unlocked whatever the verdict.
VerdictUpdatesUnguarded(state, fieldName, value, validation) ==
  IF validation.thrown
  THEN <<updateFieldStatus(state, fieldName, "pending", RETRY_MESSAGE)>>
  ELSE <<updateFieldStatus(state, fieldName, validation.status, validation.suggestion)>>
       \o unlockNextField(state, fieldName)
       \o <<recordAttempt(state, fieldName, value, validation.status),
            [state EXCEPT !.tokenCount = @ + DEFAULT_TOKENS]>>

\* The values handleFieldValidate passes to onStateUpdate after its await, in
\* order: the verdict, the unlock, the attempt, the token count; on a throw
\* the catch's single update.
VerdictUpdates(state, fieldName, value, validation) ==
  IF validation.thrown
  THEN <<updateFieldStatus(state, fieldName, "pending", RETRY_MESSAGE)>>
  ELSE <<updateFieldStatus(state, fieldName, validation.status, validation.suggestion)>>
       \o (IF validation.status = "approved" THEN unlockNextField(state, fieldName)
           ELSE <<>>)
       \o <<recordAttempt(state, fieldName, value, validation.status),
            [state EXCEPT !.tokenCount = @ + DEFAULT_TOKENS]>>

\* TeachingPane.handleReset
ResetState(state) ==
  [state EXCEPT !.concept = NULL, !.modules = <<>>, !.currentModule = 0,
                !.fields = [f \in FieldNames |-> InitialField(f = "definition")],
                !.conversationHistory = <<>>, !.tokenCount = 0, !.startTime = NULL]

\* TeachingPane.handleStartLearning: newState
StartedState(state, concept, tokens) ==
  [state EXCEPT !.concept = concept,
                !.modules = <<[name |-> concept, order |-> 1]>>,
                !.currentModule = 0, !.startTime = 1,
                !.tokenCount = tokens]

(***************************************************************************)
(* ContextManager (contextManager.js).  A message is [role, content]; the  *)
(* content is the sequence of its words, the text being the words joined   *)
(* by single spaces.  The markers the code searches the text for are       *)
(* words of the vocabulary; a quoted value is one word.                    *)
(***************************************************************************)
DEFAULT_SOFT == 30000
DEFAULT_HARD == 50000
DEFAULT_EMERGENCY == 70000

\* parseInt(import.meta.env.X) || fallback: <<>> is an unset variable (NaN)
Configured(env, fallback) ==
  IF env = <<>> \/ env[1] = 0 THEN fallback ELSE env[1]

ThresholdsOf(env) ==
  <<Configured(env[1], DEFAULT_SOFT), Configured(env[2], DEFAULT_HARD),
    Configured(env[3], DEFAULT_EMERGENCY)>>

SOFT_THRESHOLD == thresholds[1]
HARD_THRESHOLD == thresholds[2]
EMERGENCY_THRESHOLD == thresholds[3]

RECURSIVE SumLen(_, _)
SumLen(words, i) == IF i > Len(words) THEN 0 ELSE Len(words[i]) + SumLen(words, i + 1)

\* content.length
TextLength(content) ==
  IF content = <<>> THEN 0 ELSE SumLen(content, 1) + (Len(content) - 1)

RECURSIVE SumText(_, _)
SumText(messages, i) ==
  IF i > Len(messages) THEN 0 ELSE TextLength(messages[i].content) + SumText(messages, i + 1)

CHARS_PER_TOKEN == 4

\* A faulty variant: the quotient is rounded down.
estimateTokensFloor(messages) ==
  LET length == IF messages = <<>> THEN 0
                ELSE SumText(messages, 1) + (Len(messages) - 1)
  IN length \div CHARS_PER_TOKEN

\* messages.map(m => m.content).join(' ').length, then Math.ceil(length / 4)
estimateTokens(messages) ==
  LET length == IF messages = <<>> THEN 0
                ELSE SumText(messages, 1) + (Len(messages) - 1)
  IN (length + CHARS_PER_TOKEN - 1) \div CHARS_PER_TOKEN

\* content.includes(marker)
Includes(content, marker) == \E i \in 1..Len(content) : content[i] = marker

\* content.match(/marker\s*(...)/): the word after the first occurrence of the
\* marker, <<>> when the marker is the last word (no match)
Capture(content, marker) ==
  LET i == CHOOSE k \in 1..Len(content) :
             content[k] = marker /\ \A j \in 1..(k - 1) : content[j] # marker
  IN IF Includes(content, marker) /\ i < Len(content) THEN <<content[i + 1]>> ELSE <<>>

TOTAL_FIELDS == 7

\* A faulty variant: the snapshot starts at the first field.
EmptyLearningStateAtFirst ==
  [concept |-> NULL, currentField |-> fieldOrder[1], completedFields |-> <<>>,
   approvedCount |-> 0, totalFields |-> TOTAL_FIELDS, latestAttempt |-> "",
   misconceptionsCaught |-> <<>>]

EmptyLearningState ==
  [concept |-> NULL, currentField |-> NULL, completedFields |-> <<>>,
   approvedCount |-> 0, totalFields |-> TOTAL_FIELDS, latestAttempt |-> "",
   misconceptionsCaught |-> <<>>]

\* the body of extractState's forEach, for one message
ExtractStep(state, msg) ==
  LET content == msg.content
      s1 == IF state.concept = NULL /\ Capture(content, "Concept:") # <<>>
            THEN [state EXCEPT !.concept = Capture(content, "Concept:")[1]] ELSE state
      s2 == IF Capture(content, "Field:") # <<>>
            THEN [s1 EXCEPT !.currentField = Capture(content, "Field:")[1]] ELSE s1
      s3 == IF Includes(content, "APPROVED")
            THEN [s2 EXCEPT !.approvedCount = @ + 1,
                            !.completedFields =
                               IF s2.currentField # NULL
                                  /\ ~\E k \in 1..Len(@) : @[k] = s2.currentField
                               THEN Append(@, s2.currentField) ELSE @]
            ELSE s2
      s4 == IF Capture(content, "misconception:") # <<>>
            THEN [s3 EXCEPT !.misconceptionsCaught =
                               Append(@, Capture(content, "misconception:")[1])]
            ELSE s3
      s5 == IF msg.role = "user" /\ Capture(content, "attempt:") # <<>>
            THEN [s4 EXCEPT !.latestAttempt = Capture(content, "attempt:")[1]] ELSE s4
  IN s5

RECURSIVE ExtractFrom(_, _, _)
ExtractFrom(messages, i, state) ==
  IF i > Len(messages) THEN state
  ELSE LET next == ExtractStep(state, messages[i])
       IN \* (the comparison has TLC evaluate this iteration before the next)
          IF next = state THEN ExtractFrom(messages, i + 1, state)
          ELSE ExtractFrom(messages, i + 1, next)

extractState(messages) == ExtractFrom(messages, 1, EmptyLearningState)

\* `${x}` of a value that may be null
Shown(x) == IF x = NULL THEN "null" ELSE x

\* array.join(sep) as words
RECURSIVE JoinWords(_, _, _)
JoinWords(items, sep, i) ==
  IF i > Len(items) THEN <<>>
  ELSE (IF i > 1 THEN <<sep>> ELSE <<>>) \o <<items[i]>> \o JoinWords(items, sep, i + 1)

buildStateContext(state) ==
  <<"Teaching", "concept:", Shown(state.concept), "Progress:", "-", "Completed:">>
  \o JoinWords(state.completedFields, ",", 1)
  \o <<"-", "Current:", Shown(state.currentField), "-", "Approved:",
       ToString(state.approvedCount), "/", ToString(state.totalFields)>>
  \o (IF Len(state.misconceptionsCaught) > 0
      THEN <<"Misconceptions", "caught:">> \o JoinWords(state.misconceptionsCaught, ";", 1)
      ELSE <<>>)
  \o <<"Continue", "teaching", "from", "current", "position.">>

\* summarizeExchanges: the exchanges found in the dropped messages
RECURSIVE ExchangesFrom(_, _, _, _)
ExchangesFrom(messages, i, current, exchanges) ==
  IF i > Len(messages)
  THEN IF current.field # NULL THEN Append(exchanges, current) ELSE exchanges
  ELSE LET msg == messages[i]
           opens == Capture(msg.content, "Field:") # <<>>
           pushed == IF opens /\ current.field # NULL
                     THEN Append(exchanges, current) ELSE exchanges
           c1 == IF opens
                 THEN [field |-> Capture(msg.content, "Field:")[1],
                       attempts |-> 0, approved |-> FALSE]
                 ELSE current
           c2 == IF msg.role = "user" /\ Includes(msg.content, "attempt:")
                 THEN [c1 EXCEPT !.attempts = @ + 1] ELSE c1
           c3 == IF Includes(msg.content, "APPROVED")
                 THEN [c2 EXCEPT !.approved = TRUE] ELSE c2
       IN \* (the comparison has TLC evaluate this iteration before the next)
          IF c3 = current /\ pushed = exchanges
          THEN ExchangesFrom(messages, i + 1, current, exchanges)
          ELSE ExchangesFrom(messages, i + 1, c3, pushed)

RECURSIVE ShowExchanges(_, _)
ShowExchanges(exchanges, i) ==
  IF i > Len(exchanges) THEN <<>>
  ELSE (IF i > 1 THEN <<";">> ELSE <<>>)
       \o <<exchanges[i].field, ":", ToString(exchanges[i].attempts), "attempts,",
            IF exchanges[i].approved THEN "approved" ELSE "in progress">>
       \o ShowExchanges(exchanges, i + 1)

summarizeExchanges(messages) ==
  ShowExchanges(ExchangesFrom(messages, 1,
                  [field |-> NULL, attempts |-> 0, approved |-> FALSE], <<>>), 1)

\* messages.slice(from, -fromEnd), from 0-based
SliceMiddle(s, from, fromEnd) ==
  IF Len(s) - fromEnd <= from THEN <<>> ELSE SubSeq(s, from + 1, Len(s) - fromEnd)

SOFT_KEEP_LIMIT == 10
SOFT_RECENT == 6
SOFT_FIRST == 2
HARD_RECENT == 3

SummaryTurn(old) ==
  [role |-> "user",
   content |-> <<"[Previous", "conversation", "summary:">>
               \o summarizeExchanges(old) \o <<"]">>]

\* A faulty variant: one turn too many is summarised away (slice(-5)).
softCompressRecent5(messages) ==
  IF Len(messages) <= SOFT_KEEP_LIMIT THEN messages
  ELSE <<messages[1], messages[2],
         SummaryTurn(SliceMiddle(messages, SOFT_FIRST, SOFT_RECENT - 1))>>
       \o SliceLast(messages, SOFT_RECENT - 1)

softCompress(messages) ==
  IF Len(messages) <= SOFT_KEEP_LIMIT THEN messages
  ELSE <<messages[1], messages[2],
         SummaryTurn(SliceMiddle(messages, SOFT_FIRST, SOFT_RECENT))>>
       \o SliceLast(messages, SOFT_RECENT)

SnapshotTurn(messages) ==
  [role |-> "user", content |-> buildStateContext(extractState(messages))]

\* A faulty variant: the last 4 messages are kept.
hardCompressKeeps4(messages) ==
  <<SnapshotTurn(messages)>> \o SliceLast(messages, HARD_RECENT + 1)

hardCompress(messages) ==
  <<SnapshotTurn(messages)>> \o SliceLast(messages, HARD_RECENT)

CheckpointTurn(messages) ==
  LET state == extractState(messages)
  IN [role |-> "user",
      content |-> <<"[Context", "restored", "from", "checkpoint]",
                    "Concept:", Shown(state.concept),
                    "Current", "field:", Shown(state.currentField),
                    "Completed", "fields:">>
                  \o JoinWords(state.completedFields, ",", 1)
                  \o <<"Progress:", ToString(state.approvedCount), "/",
                       ToString(state.totalFields), "fields", "approved",
                       "User's", "current", "attempt:", state.latestAttempt>>]

\* A faulty variant: the latest message is sent along with the snapshot.
emergencyCompressKeepsLast(messages) ==
  <<CheckpointTurn(messages)>> \o SliceLast(messages, 1)

emergencyCompress(messages) == <<CheckpointTurn(messages)>>

\* [...conversationHistory] and the push of a truthy newMessage (<<>>: none)
OutboundMessages(conversationHistory, newMessage) == conversationHistory \o newMessage

\* A faulty variant: the lower bounds are exclusive.
CompressExclusive(messages) ==
  LET tokenEstimate == estimateTokens(messages)
  IN IF tokenEstimate > EMERGENCY_THRESHOLD THEN emergencyCompress(messages)
     ELSE IF tokenEstimate > HARD_THRESHOLD THEN hardCompress(messages)
     ELSE IF tokenEstimate > SOFT_THRESHOLD THEN softCompress(messages)
     ELSE messages

\* buildContext from the estimate on: the tier's compression of the messages
Compress(messages) ==
  LET tokenEstimate == estimateTokens(messages)
  IN IF tokenEstimate >= EMERGENCY_THRESHOLD THEN emergencyCompress(messages)
     ELSE IF tokenEstimate >= HARD_THRESHOLD THEN hardCompress(messages)
     ELSE IF tokenEstimate >= SOFT_THRESHOLD THEN softCompress(messages)
     ELSE messages

\* A faulty variant: the tier of the latest advisory query is reused instead
\* of a fresh estimate of the messages.
CompressCachedTier(messages) ==
  IF lastAdvice = <<>> THEN messages
  ELSE IF lastAdvice[1].advice.level = "emergency" THEN emergencyCompress(messages)
  ELSE IF lastAdvice[1].advice.level = "hard" THEN hardCompress(messages)
  ELSE IF lastAdvice[1].advice.level = "soft" THEN softCompress(messages)
  ELSE messages

buildContextCachedTier(conversationHistory, newMessage) ==
  [out |-> CompressCachedTier(OutboundMessages(conversationHistory, newMessage)),
   conversationHistory |-> conversationHistory]

\* A faulty variant: newMessage is pushed onto the caller's array (no copy).
buildContextInPlace(conversationHistory, newMessage) ==
  [out |-> Compress(OutboundMessages(conversationHistory, newMessage)),
   conversationHistory |-> conversationHistory \o newMessage]

\* buildContext: what it returns and the caller's array after the call
buildContext(conversationHistory, newMessage) ==
  [out |-> Compress(OutboundMessages(conversationHistory, newMessage)),
   conversationHistory |-> conversationHistory]

\* A faulty variant: hard is tested before emergency.
checkThresholdHardFirst(tokenCount) ==
  IF tokenCount >= HARD_THRESHOLD THEN "hard"
  ELSE IF tokenCount >= EMERGENCY_THRESHOLD THEN "emergency"
  ELSE IF tokenCount >= SOFT_THRESHOLD THEN "soft"
  ELSE "normal"

checkThreshold(tokenCount) ==
  IF tokenCount >= EMERGENCY_THRESHOLD THEN "emergency"
  ELSE IF tokenCount >= HARD_THRESHOLD THEN "hard"
  ELSE IF tokenCount >= SOFT_THRESHOLD THEN "soft"
  ELSE "normal"

getCompressionAdvice(tokenCount) ==
  [level |-> checkThreshold(tokenCount),
   shouldCompress |-> checkThreshold(tokenCount) # "normal",
   mustCompress |-> checkThreshold(tokenCount) = "emergency"]

(***************************************************************************)
(* Continuation code (continuationCode.js).  A JavaScript string is the    *)
(* sequence of its UTF-16 code units; a JavaScript value is a record       *)
(* tagged with its type.                                                   *)
(***************************************************************************)

\* the code units of the words of the program: the tag, the JSON literals,
\* the keys of the essential subset, the version, the field names and the
\* status words
Units(word) ==
  CASE word = "FLS" -> <<70, 76, 83>>
    [] word = "null" -> <<110, 117, 108, 108>>
    [] word = "true" -> <<116, 114, 117, 101>>
    [] word = "false" -> <<102, 97, 108, 115, 101>>
    [] word = "v" -> <<118>>
    [] word = "c" -> <<99>>
    [] word = "m" -> <<109>>
    [] word = "f" -> <<102>>
    [] word = "t" -> <<116>>
    [] word = "st" -> <<115, 116>>
    [] word = "s" -> <<115>>
    [] word = "u" -> <<117>>
    [] word = "1.0.0" -> <<49, 46, 48, 46, 48>>
    [] word = "definition" -> <<100, 101, 102, 105, 110, 105, 116, 105, 111, 110>>
    [] word = "mechanism" -> <<109, 101, 99, 104, 97, 110, 105, 115, 109>>
    [] word = "example" -> <<101, 120, 97, 109, 112, 108, 101>>
    [] word = "analogy" -> <<97, 110, 97, 108, 111, 103, 121>>
    [] word = "why_matters" -> <<119, 104, 121, 95, 109, 97, 116, 116, 101, 114, 115>>
    [] word = "misconception" -> <<109, 105, 115, 99, 111, 110, 99, 101, 112, 116, 105, 111, 110>>
    [] word = "integration" -> <<105, 110, 116, 101, 103, 114, 97, 116, 105, 111, 110>>
    [] word = "pending" -> <<112, 101, 110, 100, 105, 110, 103>>
    [] word = "analyzing" -> <<97, 110, 97, 108, 121, 122, 105, 110, 103>>
    [] word = "needs_revision" -> <<110, 101, 101, 100, 115, 95, 114, 101, 118, 105, 115, 105, 111, 110>>
    [] word = "approved" -> <<97, 112, 112, 114, 111, 118, 101, 100>>

JNull == [t |-> "null", b |-> FALSE, n |-> 0, s |-> <<>>, o |-> <<>>]
JUndefined == [t |-> "undefined", b |-> FALSE, n |-> 0, s |-> <<>>, o |-> <<>>]
JBool(b) == [t |-> "bool", b |-> b, n |-> 0, s |-> <<>>, o |-> <<>>]
JNum(n) == [t |-> "num", b |-> FALSE, n |-> n, s |-> <<>>, o |-> <<>>]
JStr(s) == [t |-> "str", b |-> FALSE, n |-> 0, s |-> s, o |-> <<>>]
\* an object: its own properties <<key, value>> in insertion order
JObj(o) == [t |-> "obj", b |-> FALSE, n |-> 0, s |-> <<>>, o |-> o]

\* !x
Falsy(x) ==
  \/ x.t \in {"null", "undefined"}
  \/ x.t = "bool" /\ ~x.b
  \/ x.t = "num" /\ x.n = 0
  \/ x.t = "str" /\ x.s = <<>>

\* x.key: undefined unless x is an object with that property
Get(x, key) ==
  IF x.t = "obj" /\ \E i \in 1..Len(x.o) : x.o[i][1] = key
  THEN x.o[CHOOSE i \in 1..Len(x.o) :
              x.o[i][1] = key /\ \A j \in (i + 1)..Len(x.o) : x.o[j][1] # key][2]
  ELSE JUndefined

RECURSIVE Digits(_)
Digits(n) == IF n < 10 THEN <<48 + n>> ELSE Digits(n \div 10) \o <<48 + (n % 10)>>

RECURSIVE Quoted(_, _)
\* the characters of a JSON string literal: " and \ escaped, newline as \n
Quoted(str, i) ==
  IF i > Len(str) THEN <<>>
  ELSE (IF str[i] = 34 THEN <<92, 34>>
        ELSE IF str[i] = 92 THEN <<92, 92>>
        ELSE IF str[i] = 10 THEN <<92, 110>>
        ELSE <<str[i]>>) \o Quoted(str, i + 1)

RECURSIVE JSONStringify(_)
RECURSIVE StringifyMembers(_, _, _)
StringifyMembers(o, i, first) ==
  IF i > Len(o) THEN <<>>
  ELSE IF o[i][2].t = "undefined" THEN StringifyMembers(o, i + 1, first)
  ELSE (IF first THEN <<>> ELSE <<44>>)
       \o <<34>> \o Quoted(o[i][1], 1) \o <<34, 58>> \o JSONStringify(o[i][2])
       \o StringifyMembers(o, i + 1, FALSE)

JSONStringify(x) ==
  CASE x.t = "null" -> Units("null")
    [] x.t = "bool" -> IF x.b THEN Units("true") ELSE Units("false")
    [] x.t = "num" -> IF x.n < 0 THEN <<45>> \o Digits(-x.n) ELSE Digits(x.n)
    [] x.t = "str" -> <<34>> \o Quoted(x.s, 1) \o <<34>>
    [] OTHER -> <<123>> \o StringifyMembers(x.o, 1, TRUE) \o <<125>>

(* JSON.parse, for the grammar of objects, strings, integers and literals. *)
ParseFail == [ok |-> FALSE, v |-> JUndefined, next |-> 0]
Parsed(v, next) == [ok |-> TRUE, v |-> v, next |-> next]

IsWs(c) == c \in {32, 9, 10, 13}
IsDigit(c) == 48 <= c /\ c <= 57

\* the first position from i on that holds no whitespace (Len + 1: none)
SkipWs(t, i) ==
  IF \E j \in i..Len(t) : ~IsWs(t[j])
  THEN CHOOSE j \in i..Len(t) : ~IsWs(t[j]) /\ \A k \in i..(j - 1) : IsWs(t[k])
  ELSE Len(t) + 1

StartsWith(t, i, word) ==
  /\ i + Len(word) - 1 <= Len(t)
  /\ \A k \in 1..Len(word) : t[i + k - 1] = word[k]

\* the string literal whose opening quote is before position i
RECURSIVE ParseString(_, _, _)
ParseString(t, i, acc) ==
  IF i > Len(t) THEN ParseFail
  ELSE IF t[i] = 34 THEN Parsed(JStr(acc), i + 1)
  ELSE IF t[i] < 32 THEN ParseFail
  ELSE IF t[i] = 92
       THEN IF i + 1 > Len(t) THEN ParseFail
            ELSE IF t[i + 1] \in {34, 92, 47} THEN ParseString(t, i + 2, Append(acc, t[i + 1]))
            ELSE IF t[i + 1] = 110 THEN ParseString(t, i + 2, Append(acc, 10))
            ELSE ParseFail
  ELSE ParseString(t, i + 1, Append(acc, t[i]))

RECURSIVE ParseDigits(_, _, _)
ParseDigits(t, i, acc) ==
  IF i <= Len(t) /\ IsDigit(t[i]) THEN ParseDigits(t, i + 1, 10 * acc + (t[i] - 48))
  ELSE Parsed(JNum(acc), i)

\* -?(0|[1-9][0-9]*)
ParseNumber(t, i) ==
  LET neg == t[i] = 45
      d == IF neg THEN i + 1 ELSE i
  IN IF d > Len(t) \/ ~IsDigit(t[d]) THEN ParseFail
     ELSE IF t[d] = 48 THEN Parsed(JNum(0), d + 1)
     ELSE LET r == ParseDigits(t, d, 0)
          IN IF neg THEN Parsed(JNum(-r.v.n), r.next) ELSE r

RECURSIVE ParseValue(_, _)
RECURSIVE ParseMembers(_, _, _)
\* the members of an object from position i (a key is expected there)
ParseMembers(t, i, acc) ==
  LET k == SkipWs(t, i)
  IN IF k > Len(t) \/ t[k] # 34 THEN ParseFail
     ELSE LET key == ParseString(t, k + 1, <<>>)
              colon == IF key.ok THEN SkipWs(t, key.next) ELSE 0
          IN IF ~key.ok \/ colon > Len(t) \/ t[colon] # 58 THEN ParseFail
             ELSE LET val == ParseValue(t, colon + 1)
                      sep == IF val.ok THEN SkipWs(t, val.next) ELSE 0
                      members == Append(acc, <<key.v.s, val.v>>)
                  IN IF ~val.ok \/ sep > Len(t) THEN ParseFail
                     ELSE IF t[sep] = 125 THEN Parsed(JObj(members), sep + 1)
                     ELSE IF t[sep] = 44 THEN ParseMembers(t, sep + 1, members)
                     ELSE ParseFail

ParseValue(t, i) ==
  LET j == SkipWs(t, i)
  IN IF j > Len(t) THEN ParseFail
     ELSE IF t[j] = 123
          THEN LET k == SkipWs(t, j + 1)
               IN IF k <= Len(t) /\ t[k] = 125 THEN Parsed(JObj(<<>>), k + 1)
                  ELSE ParseMembers(t, j + 1, <<>>)
     ELSE IF t[j] = 34 THEN ParseString(t, j + 1, <<>>)
     ELSE IF StartsWith(t, j, Units("null")) THEN Parsed(JNull, j + 4)
     ELSE IF StartsWith(t, j, Units("true")) THEN Parsed(JBool(TRUE), j + 4)
     ELSE IF StartsWith(t, j, Units("false")) THEN Parsed(JBool(FALSE), j + 5)
     ELSE IF t[j] = 45 \/ IsDigit(t[j]) THEN ParseNumber(t, j)
     ELSE ParseFail

\* JSON.parse(text): the value, or a SyntaxError (ok = FALSE)
JSONParse(text) ==
  LET r == ParseValue(text, 1)
  IN IF r.ok /\ SkipWs(text, r.next) > Len(text) THEN r ELSE ParseFail

(* btoa / atob: base64 with the alphabet A-Z a-z 0-9 + / and = padding.    *)
B64Char(i) ==
  IF i < 26 THEN 65 + i
  ELSE IF i < 52 THEN 97 + (i - 26)
  ELSE IF i < 62 THEN 48 + (i - 52)
  ELSE IF i = 62 THEN 43 ELSE 47

B64Index(c) ==
  IF 65 <= c /\ c <= 90 THEN c - 65
  ELSE IF 97 <= c /\ c <= 122 THEN c - 97 + 26
  ELSE IF 48 <= c /\ c <= 57 THEN c - 48 + 52
  ELSE IF c = 43 THEN 62
  ELSE IF c = 47 THEN 63 ELSE -1


\* btoa throws InvalidCharacterError on a code unit above 0xFF
BtoaThrows(str) == \E i \in 1..Len(str) : str[i] > 255

btoa(str) ==
  LET n == Len(str)
      At(k) == IF k <= n THEN str[k] ELSE 0
      Triple(g) == At(3 * g + 1) * 65536 + At(3 * g + 2) * 256 + At(3 * g + 3)
      chars == [j \in 1..(4 * ((n + 2) \div 3)) |->
                  LET g == (j - 1) \div 4
                      p == (j - 1) % 4
                  IN IF p >= 2 /\ 3 * g + p > n THEN 61
                     ELSE B64Char((Triple(g) \div 64^(3 - p)) % 64)]
  IN chars \o <<>>

\* the data of atob's argument: up to two trailing = dropped when the length
\* is a multiple of 4
AtobData(str) ==
  LET n == Len(str)
      pads == IF n % 4 = 0 /\ n >= 2 /\ str[n] = 61
              THEN (IF str[n - 1] = 61 THEN 2 ELSE 1) ELSE 0
  IN SubSeq(str, 1, n - pads)

AtobThrows(str) ==
  LET data == AtobData(str)
  IN \/ Len(data) % 4 = 1
     \/ \E i \in 1..Len(data) : B64Index(data[i]) < 0

atob(str) ==
  LET data == AtobData(str)
      m == Len(data)
      Six(k) == IF k <= m THEN B64Index(data[k]) ELSE 0
      Quad(g) == Six(4 * g + 1) * 262144 + Six(4 * g + 2) * 4096
                 + Six(4 * g + 3) * 64 + Six(4 * g + 4)
      bytes == [k \in 1..((m * 3) \div 4) |->
                  (Quad((k - 1) \div 3) \div 256^(2 - ((k - 1) % 3))) % 256]
  IN bytes \o <<>>

\* concept.replace(/[aeiou\s]/gi, '')
IsVowelOrSpace(c) == c \in {97, 101, 105, 111, 117, 65, 69, 73, 79, 85} \/ IsWs(c)
RECURSIVE Consonants(_, _)
Consonants(str, i) ==
  IF i > Len(str) THEN <<>>
  ELSE (IF IsVowelOrSpace(str[i]) THEN <<>> ELSE <<str[i]>>) \o Consonants(str, i + 1)

\* toUpperCase of one code unit (ASCII and Latin-1 letters)
Upper(c) ==
  IF 97 <= c /\ c <= 122 THEN c - 32
  ELSE IF 224 <= c /\ c <= 254 /\ c # 247 THEN c - 32
  ELSE c

\* substring(0, n)
Prefix(str, n) == SubSeq(str, 1, IF Len(str) < n THEN Len(str) ELSE n)

PREFIX_LETTERS == 3

\* generatePrefix(concept); random is Math.floor(Math.random() * 100)
generatePrefix(concept, random) ==
  IF Falsy(concept) THEN Units("FLS")
  ELSE LET consonants == Prefix(Consonants(concept.s, 1), PREFIX_LETTERS)
       IN Units("FLS") \o <<45>> \o [i \in 1..Len(consonants) |-> Upper(consonants[i])]
          \o (IF random < 10 THEN <<48>> ELSE <<>>) \o Digits(random)

\* A session state as encodeState reads it: fields is the sequence of
\* Object.entries(state.fields), each <<name, [value, status, unlocked]>>.
RECURSIVE EssentialFields(_, _)
EssentialFields(fields, i) ==
  IF i > Len(fields) THEN <<>>
  ELSE << <<fields[i][1],
            JObj(<< <<Units("v"), fields[i][2].value>>, <<Units("s"), fields[i][2].status>>,
                    <<Units("u"), fields[i][2].unlocked>> >>)>> >>
       \o EssentialFields(fields, i + 1)

\* A faulty variant: m carries the number of modules.
EssentialCountsModules(state) ==
  JObj(<< <<Units("v"), state.version>>, <<Units("c"), state.concept>>,
          <<Units("m"), JNum(Len(state.modules))>>,
          <<Units("f"), JObj(EssentialFields(state.fields, 1))>>,
          <<Units("t"), state.tokenCount>>, <<Units("st"), state.startTime>> >>)

Essential(state) ==
  JObj(<< <<Units("v"), state.version>>, <<Units("c"), state.concept>>, <<Units("m"), state.currentModule>>,
          <<Units("f"), JObj(EssentialFields(state.fields, 1))>>,
          <<Units("t"), state.tokenCount>>, <<Units("st"), state.startTime>> >>)

\* encodeState: [ok, code]; ok = FALSE is the thrown 'State encoding failed'
encodeState(state, random) ==
  LET json == JSONStringify(Essential(state))
  IN IF BtoaThrows(json) THEN [ok |-> FALSE, code |-> <<>>]
     ELSE [ok |-> TRUE,
           code |-> generatePrefix(state.concept, random) \o <<45>> \o btoa(json)]

\* code.split('-'), the part after the tag
LastPartAfterTag(code) ==
  LET hyphens == {i \in 1..Len(code) : code[i] = 45}
      first == IF hyphens = {} THEN 0 ELSE CHOOSE i \in hyphens : \A j \in hyphens : i <= j
      rest == {i \in hyphens : i > first}
      second == IF rest = {} THEN Len(code) + 1 ELSE CHOOSE i \in rest : \A j \in rest : i <= j
  IN SubSeq(code, first + 1, second - 1)

\* code.split('-'), last part
LastPart(code) ==
  LET hyphens == {i \in 1..Len(code) : code[i] = 45}
      last == IF hyphens = {} THEN 0 ELSE CHOOSE i \in hyphens : \A j \in hyphens : j <= i
  IN SubSeq(code, last + 1, Len(code))

RECURSIVE DecodedFields(_, _)
DecodedFields(entries, i) ==
  IF i > Len(entries) THEN <<>>
  ELSE << <<entries[i][1],
            [value |-> Get(entries[i][2], Units("v")), status |-> Get(entries[i][2], Units("s")),
             unlocked |-> Get(entries[i][2], Units("u"))]>> >>
       \o DecodedFields(entries, i + 1)

DecodeFail == [ok |-> FALSE, state |-> <<>>]

\* decodeState: [ok, state]; ok = FALSE is the thrown 'Invalid continuation code'
decodeState(code) ==
  LET encoded == LastPart(code)
  IN IF AtobThrows(encoded) THEN DecodeFail
     ELSE LET parsed == JSONParse(atob(encoded))
              essential == parsed.v
              f == Get(essential, Units("f"))
          IN IF ~parsed.ok THEN DecodeFail
             \* essential.v of null, Object.entries of null or undefined, and
             \* field.v of a null entry throw a TypeError
             ELSE IF essential.t = "null" \/ f.t \in {"null", "undefined"}
                     \/ \E i \in 1..Len(f.o) : f.o[i][2].t = "null"
                  THEN DecodeFail
             ELSE [ok |-> TRUE,
                   state |-> <<[version |-> Get(essential, Units("v")),
                                concept |-> Get(essential, Units("c")),
                                currentModule |-> IF Falsy(Get(essential, Units("m"))) THEN JNum(0)
                                                  ELSE Get(essential, Units("m")),
                                fields |-> DecodedFields(f.o, 1),
                                tokenCount |-> IF Falsy(Get(essential, Units("t"))) THEN JNum(0)
                                               ELSE Get(essential, Units("t")),
                                startTime |-> Get(essential, Units("st"))]>>]

PATTERN_LETTERS == 3
PATTERN_DIGITS == 2

\* validateCode: /^FLS-[A-Z]{0,3}\d{2}-.+$/ (. matches no line terminator)
validateCode(code) ==
  \E k \in 0..PATTERN_LETTERS :
    LET digits == 4 + k
        hyphen == digits + PATTERN_DIGITS + 1
    IN /\ Len(code) > hyphen
       /\ StartsWith(code, 1, Units("FLS") \o <<45>>)
       /\ \A i \in 5..digits : 65 <= code[i] /\ code[i] <= 90
       /\ \A i \in (digits + 1)..(hyphen - 1) : IsDigit(code[i])
       /\ code[hyphen] = 45
       /\ \A i \in (hyphen + 1)..Len(code) : code[i] \notin {10, 13, 8232, 8233}

(***************************************************************************)
(* The session: App's state and the handlers that replace it               *)
(***************************************************************************)
Concepts == {"gravity"}
NoTimers == [f \in FieldNames |-> {}]
CodecIdle == codec = <<>>
StoreIdle == store = <<>>
RequestIdle == request = <<>>
SheetIdle == sheet = <<>>
\* localStorage.setItem in the session: the write goes through
SaveOutcomes == {TRUE}

\* the fields whose status is approved in a state, added to the history
Approvals(state) == {f \in FieldNames : state.fields[f].status = "approved"}

SessionInit ==
  /\ appState = createInitialState
  /\ queue = <<>>
  /\ timers = NoTimers
  /\ inflight = {}
  /\ research = <<>>
  /\ validatingField = NULL
  /\ showDemo = FALSE
  /\ storage = <<>>
  /\ checkpointSlot = <<>>
  /\ everApproved = {}
  /\ lastDone = <<>>

\* setAppState(next) followed by App's auto-save effect (saveState(appState))
Commit(next, saved) ==
  /\ appState' = next
  /\ storage' = saveState(next, saved, storage).slot
  /\ everApproved' = everApproved \cup Approvals(next)
  /\ UNCHANGED checkpointSlot

\* FieldComponent.handleChange: a keystroke in an enabled textarea restarts the
\* field's debounce timer; the timer's callback closes over the props of this
\* render (onUpdate, onValidate and with them `state`) and over wordCount.
\* A timer of an unmounted instance of the field is not cleared: each
\* FieldComponent instance has its own typingTimerRef and no cleanup.
Type(f, v, enough) ==
  /\ UNCHANGED nonSession
  /\ queue = <<>>
  /\ ~showDemo
  /\ appState.fields[f].unlocked
  /\ validatingField # f
  /\ timers' = [timers EXCEPT ![f] =
                  {c \in @ : c.unmounted}
                  \cup {[state |-> appState, value |-> v, enough |-> enough,
                         unmounted |-> FALSE]}]
  /\ UNCHANGED <<appState, queue, inflight, research, validatingField, showDemo, storage,
                 checkpointSlot, everApproved, lastDone>>

\* The debounce timer fires: onUpdate, then onValidate up to its await.
TimerFire(f) ==
  /\ UNCHANGED nonSession
  /\ queue = <<>>
  /\ \E c \in timers[f] :
       LET validates == c.enough /\ trim(c.value) # "" /\ c.state.concept # NULL
       IN /\ validates => /\ Cardinality(inflight) < MaxInflight
                          /\ c.state.tokenCount < MaxCompleted * DEFAULT_TOKENS
          /\ queue' = <<handleFieldUpdate(c.state, f, c.value)>>
                      \o (IF validates THEN ValidateStartUpdates(c.state, f, c.value) ELSE <<>>)
          /\ inflight' = IF validates
                         THEN inflight \cup {[field |-> f, value |-> c.value, state |-> c.state,
                                              unmounted |-> c.unmounted]}
                         ELSE inflight
          /\ validatingField' = IF validates /\ ~c.unmounted THEN f ELSE validatingField
          /\ timers' = [timers EXCEPT ![f] = @ \ {c}]
  /\ lastDone' = <<>>
  /\ UNCHANGED <<appState, research, storage, checkpointSlot, everApproved, showDemo>>

\* claudeService.validateField settles: the rest of handleFieldValidate.
Resolve(call, reply) ==
  /\ UNCHANGED nonSession
  /\ queue = <<>>
  /\ call \in inflight
  /\ LET validation == validateField(reply)
     IN /\ queue' = VerdictUpdates(call.state, call.field, call.value, validation)
        /\ lastDone' = <<[field |-> call.field, value |-> call.value,
                          outcome |-> IF validation.thrown THEN "error" ELSE validation.status,
                          reply |-> reply,
                          state |-> call.state]>>
  /\ inflight' = inflight \ {call}
  /\ validatingField' = IF call.unmounted THEN validatingField ELSE NULL
  /\ UNCHANGED <<appState, timers, research, storage, checkpointSlot, everApproved,
                 showDemo>>

\* The updates of the running handler reach appState: one at a time, each
\* rendered (updates outside React's batch), or only the last one (batched).
Flush ==
  /\ UNCHANGED nonSession
  /\ queue # <<>>
  /\ \E batched \in BOOLEAN, saved \in SaveOutcomes :
       /\ Commit(IF batched THEN queue[Len(queue)] ELSE Head(queue), saved)
       /\ queue' = IF batched THEN <<>> ELSE Tail(queue)
  /\ UNCHANGED <<timers, inflight, research, validatingField, showDemo, lastDone>>

\* TeachingPane.handleStartLearning up to its first await
StartLearning(concept) ==
  /\ UNCHANGED nonSession
  /\ queue = <<>>
  /\ ~showDemo
  /\ appState.concept = NULL
  /\ research = <<>>
  /\ research' = <<[state |-> appState, concept |-> concept]>>
  /\ UNCHANGED <<appState, queue, timers, inflight, validatingField, showDemo, storage,
                 checkpointSlot, everApproved, lastDone>>

\* the research and module analysis settle: onStateUpdate(newState), or the catch
ResearchDone(ok) ==
  /\ UNCHANGED nonSession
  /\ queue = <<>>
  /\ research # <<>>
  /\ research' = <<>>
  /\ IF ok
     THEN \E tokens \in ResearchTokens, saved \in SaveOutcomes :
            Commit(StartedState(research[1].state, research[1].concept, tokens), saved)
     ELSE UNCHANGED <<appState, storage, checkpointSlot, everApproved>>
  /\ lastDone' = <<>>
  /\ UNCHANGED <<queue, timers, inflight, validatingField, showDemo>>

\* TeachingPane.handleReset ("Start New Concept", shown while a concept is set)
Reset ==
  /\ UNCHANGED nonSession
  /\ queue = <<>>
  /\ ~showDemo
  /\ appState.concept # NULL
  /\ \E saved \in SaveOutcomes : Commit(ResetState(appState), saved)
  /\ lastDone' = <<>>
  /\ UNCHANGED <<queue, timers, inflight, research, validatingField, showDemo>>

\* The page is loaded again: App's initializeApp effect, then the auto-save.
Reload ==
  /\ UNCHANGED nonSession
  /\ queue = <<>>
  /\ \E saved \in SaveOutcomes :
       Commit(IF restoreState(storage) = <<>> THEN createInitialState
              ELSE restoreState(storage)[1], saved)
  /\ timers' = NoTimers
  /\ inflight' = {}
  /\ research' = <<>>
  /\ validatingField' = NULL
  /\ showDemo' = FALSE
  /\ lastDone' = <<>>
  /\ UNCHANGED queue

\* "Watch Demo": setShowDemo(true).  App renders DemoPlayer in place of the
\* panes, which unmount: the state of PracticeSheetPane is gone, while the
\* timers and the handlers awaiting the service keep running and still call
\* setAppState; their setValidatingField calls reach no mounted instance.
WatchDemo ==
  /\ UNCHANGED nonSession
  /\ queue = <<>>
  /\ ~showDemo
  /\ Cardinality(UNION {{<<f, c>> : c \in timers[f]} : f \in FieldNames})
       + Cardinality(inflight) <= MaxUnmounted
  /\ showDemo' = TRUE
  /\ validatingField' = NULL
  /\ timers' = [f \in FieldNames |-> {[c EXCEPT !.unmounted = TRUE] : c \in timers[f]}]
  /\ inflight' = {[call EXCEPT !.unmounted = TRUE] : call \in inflight}
  /\ UNCHANGED <<appState, queue, research, storage, checkpointSlot, everApproved, lastDone>>

\* App.handleDemoComplete: the panes are mounted anew, with a fresh session
\* state when the demo was left through "start learning"
DemoComplete(startLearning) ==
  /\ UNCHANGED nonSession
  /\ queue = <<>>
  /\ showDemo
  /\ showDemo' = FALSE
  /\ IF startLearning
     THEN /\ \E saved \in SaveOutcomes : Commit(createInitialState, saved)
          /\ lastDone' = <<>>
     ELSE UNCHANGED <<appState, storage, checkpointSlot, everApproved, lastDone>>
  /\ UNCHANGED <<queue, timers, inflight, research, validatingField>>

SessionNext ==
  \/ \E f \in FieldNames, v \in Values, enough \in BOOLEAN : Type(f, v, enough)
  \/ \E f \in FieldNames : TimerFire(f)
  \/ \E call \in inflight, reply \in Replies : Resolve(call, reply)
  \/ Flush
  \/ \E concept \in Concepts : StartLearning(concept)
  \/ \E ok \in BOOLEAN : ResearchDone(ok)
  \/ Reset
  \/ Reload

(***************************************************************************)
(* Calls of the ContextManager.  The histories are those of a dialogue     *)
(* whose odd and even turns each repeat one message.                       *)
(***************************************************************************)
MaxTurns == 20        \* length of the conversation history
MaxTierTokens == 4    \* token counts tried against small thresholds

Template(k) ==
  CASE k = 1 -> [role |-> "user", content |-> <<"ok">>]
    [] k = 2 -> [role |-> "user",
                 content |-> <<"Concept:", "gravity", "Field:", "definition",
                               "attempt:", "falls">>]
    [] OTHER -> [role |-> "assistant", content |-> <<"APPROVED">>]
TemplateIds == 1..3

History(n, a, b) == [i \in 1..n |-> Template(IF i % 2 = 1 THEN a ELSE b)]

\* the newMessage argument: none, or the user's next attempt
NewOptions == {0, 2}
NewMessage(k) == IF k = 0 THEN <<>> ELSE <<Template(k)>>

\* the environment of the build: nothing set, or small thresholds
CtxEnvs == {<< <<>>, <<>>, <<>> >>, << <<8>>, <<20>>, <<40>> >>}
TierEnvValues == {<<>>, <<1>>, <<2>>, <<3>>}
TierTokens == (0..MaxTierTokens)
              \cup {DEFAULT_SOFT - 1, DEFAULT_SOFT, DEFAULT_HARD, DEFAULT_EMERGENCY}

HandlersIdle ==
  /\ queue = <<>>
  /\ timers = NoTimers
  /\ inflight = {}
  /\ research = <<>>
  /\ validatingField = NULL
  /\ showDemo = FALSE
  /\ everApproved = {}
  /\ lastDone = <<>>

SessionIdle == HandlersIdle /\ checkpointSlot = <<>>

CtxInit ==
  /\ \E env \in CtxEnvs : thresholds = ThresholdsOf(env)
  /\ \E n \in 0..MaxTurns, a \in TemplateIds, b \in TemplateIds :
       appState = [createInitialState EXCEPT !.concept = "gravity",
                                             !.conversationHistory = History(n, a, b)]
  /\ storage = <<compressState(appState)>>
  /\ SessionIdle
  /\ lastBuild = [k \in NewOptions |-> <<>>]
  /\ lastAdvice = <<>>
  /\ CodecIdle
  /\ StoreIdle
  /\ RequestIdle
  /\ SheetIdle

\* claudeService.teachField: contextManager.buildContext(conversationHistory, newMessage)
BuildContext(k) ==
  LET call == buildContext(appState.conversationHistory, NewMessage(k))
  IN /\ lastBuild' = [lastBuild EXCEPT ![k] =
                        <<[history |-> appState.conversationHistory,
                           newMessage |-> NewMessage(k),
                           out |-> call.out,
                           calls |-> IF lastBuild[k] = <<>> THEN 1 ELSE 2]>>]
     /\ appState' = [appState EXCEPT !.conversationHistory = call.conversationHistory]
     /\ UNCHANGED <<queue, timers, inflight, research, validatingField, showDemo, storage,
                    checkpointSlot, everApproved, lastDone, thresholds, lastAdvice, codec,
                    store, request, sheet>>

\* TeachingPane.getContextStatus: contextManager.getCompressionAdvice(tokenCount);
\* the two latest queries are kept, the newest first
GetAdvice(tokenCount) ==
  /\ lastAdvice' = <<[tokenCount |-> tokenCount, advice |-> getCompressionAdvice(tokenCount)]>>
                   \o SubSeq(lastAdvice, 1, IF lastAdvice = <<>> THEN 0 ELSE 1)
  /\ UNCHANGED <<sessVars, thresholds, lastBuild, codec, store, request, sheet>>

\* the estimates of the message sequences buildContext is called with
Estimates ==
  {estimateTokens(OutboundMessages(appState.conversationHistory, NewMessage(k))) :
     k \in NewOptions}

CtxNext ==
  \/ \E k \in NewOptions : BuildContext(k)
  \/ \E t \in Estimates \cup {appState.tokenCount} : GetAdvice(t)

TierInit ==
  /\ \E s \in TierEnvValues, h \in TierEnvValues, e \in TierEnvValues :
       thresholds = ThresholdsOf(<<s, h, e>>)
  /\ appState = createInitialState
  /\ storage = <<>>
  /\ SessionIdle
  /\ lastBuild = [k \in NewOptions |-> <<>>]
  /\ lastAdvice = <<>>
  /\ CodecIdle
  /\ StoreIdle
  /\ RequestIdle
  /\ SheetIdle

TierNext == \E t \in TierTokens : GetAdvice(t)

(***************************************************************************)
(* Specifications                                                          *)
(***************************************************************************)
CtxIdle ==
  /\ thresholds = ThresholdsOf(<< <<>>, <<>>, <<>> >>)
  /\ lastBuild = [k \in NewOptions |-> <<>>]
  /\ lastAdvice = <<>>

(***************************************************************************)
(* Codec runs: handleGenerateContinuationCode encodes the session state;   *)
(* the code is later decoded.                                              *)
(***************************************************************************)
MaxConceptLen == 2
MaxRandom == 1

\* the concepts tried: gravity, and the pieces of ab-1 followed by e-acute and
\* U+65E5 that are no longer than MaxConceptLen (the empty one among them)
ConceptSample == <<97, 98, 45, 49, 233, 26085>>
ConceptStrings ==
  {<<103, 114, 97, 118, 105, 116, 121>>}
  \cup {SubSeq(ConceptSample, w[1], w[2]) :
          w \in {w \in (1..Len(ConceptSample)) \X (0..Len(ConceptSample)) :
                   w[1] - 1 <= w[2] /\ w[2] - w[1] < MaxConceptLen}}
\* the first field: as created, locked, and with the values it"\ , e-acute
\* with a newline, U+65E5
FieldStates ==
  {[value |-> JStr(f[1]), status |-> JStr(Units(f[2])), unlocked |-> JBool(f[3]),
    attempts |-> <<>>] :
     f \in {<< <<>>, "pending", TRUE >>, << <<>>, "pending", FALSE >>,
            << <<105, 116, 34, 92>>, "approved", TRUE >>,
            << <<233, 10>>, "needs_revision", TRUE >>,
            << <<26085>>, "pending", TRUE >>}}
\* <<tokenCount, startTime, currentModule>>: as created, and after a start
\* (startTime is Date.now(), tokenCount the sum of the estimates so far)
Progress == {<<0, JNull, 0>>, <<1500, JNum(17), 1>>}
\* Math.floor(Math.random() * 100) of generatePrefix
Randoms == {5} \cup {41 + r : r \in 1..MaxRandom}

\* the session state with its first field as given and the rest as created
CodecState(concept, first, tokens, start, module) ==
  [version |-> JStr(Units("1.0.0")),
   concept |-> concept,
   currentModule |-> JNum(module),
   fields |-> [i \in 1..Len(fieldOrder) |->
                 <<Units(fieldOrder[i]),
                   IF i = 1 THEN first
                   ELSE [value |-> JStr(<<>>),
                         status |-> JStr(Units(InitialField(FALSE).status)),
                         unlocked |-> JBool(InitialField(FALSE).unlocked),
                         attempts |-> InitialField(FALSE).attempts]>>],
   tokenCount |-> JNum(tokens),
   startTime |-> start,
   modules |-> createInitialState.modules,
   conversationHistory |-> createInitialState.conversationHistory]

CodecStates ==
  {CodecState(c, f, p[1], p[2], p[3]) :
     c \in {JNull} \cup {JStr(str) : str \in ConceptStrings}, f \in FieldStates,
     p \in Progress}

NotEncoded == [ok |-> FALSE, code |-> <<>>]

MaxCut == 2

\* the essential subset without the member named key
Without(essential, key) ==
  JObj(SelectSeq(essential.o, LAMBDA member : member[1] # key))

\* JSON values that are not a complete essential subset of the state
IncompletePayloads(state) ==
  <<Without(Essential(state), Units("v")), Without(Essential(state), Units("c")),
    Without(Essential(state), Units("f")), JObj(<<>>), JObj(<< <<Units("f"), JObj(<<>>)>> >>), JNum(5)>>

\* the text of code before its final hyphen-separated segment, hyphen included
Segments(code) == SubSeq(code, 1, Len(code) - Len(LastPart(code)))

\* human-readable segments other than those generatePrefix made: FLS-ZZ99-, FLS-
OtherSegments == << Units("FLS") \o <<45, 90, 90, 57, 57, 45>>, Units("FLS") \o <<45>> >>

\* the kinds of code derived from one that encodeState returned, each with
\* the number of its instances:
\*   truncated   the last characters are missing
\*   incomplete  the payload encodes a value that is no complete essential subset
\*   tag         the leading FLS is replaced by XYZ
\*   prefix      the human-readable segments are replaced
Variants ==
  ({"truncated"} \X (1..MaxCut)) \cup ({"incomplete"} \X (1..6))
  \cup ({"tag"} \X {1}) \cup ({"prefix"} \X (1..2))

VariantCode(state, code, kind, k) ==
  CASE kind = "truncated" -> SubSeq(code, 1, Len(code) - k)
    [] kind = "incomplete" ->
         Segments(code) \o btoa(JSONStringify(IncompletePayloads(state)[k]))
    [] kind = "tag" -> <<88, 89, 90>> \o SubSeq(code, 4, Len(code))
    [] OTHER -> OtherSegments[k] \o LastPart(code)

CodecInit ==
  /\ appState = createInitialState
  /\ storage = <<>>
  /\ SessionIdle
  /\ CtxIdle
  /\ StoreIdle
  /\ RequestIdle
  /\ SheetIdle
  /\ \E state \in CodecStates :
       codec = <<[state |-> state, step |-> "state",
                  encoded |-> NotEncoded, decoded |-> DecodeFail, variant |-> <<>>]>>

\* handleGenerateContinuationCode: encodeState(state)
Encode(random) ==
  /\ codec[1].step = "state"
  /\ codec' = <<[codec[1] EXCEPT !.step = "encoded",
                                 !.encoded = encodeState(codec[1].state, random)]>>
  /\ UNCHANGED <<sessVars, ctxVars, store, request, sheet>>

\* decodeState(code) of a code that encodeState returned
Decode ==
  /\ codec[1].step = "encoded"
  /\ codec[1].encoded.ok
  /\ codec' = <<[codec[1] EXCEPT !.step = "decoded",
                                 !.decoded = decodeState(codec[1].encoded.code)]>>
  /\ UNCHANGED <<sessVars, ctxVars, store, request, sheet>>

\* decodeState(code) of a code derived from the one encodeState returned
DecodeVariant(kind, k) ==
  /\ codec[1].step = "decoded"
  /\ LET code == VariantCode(codec[1].state, codec[1].encoded.code, kind, k)
     IN codec' = <<[codec[1] EXCEPT !.step = "variant",
                                    !.variant = <<[kind |-> kind, code |-> code,
                                                   result |-> decodeState(code)]>>]>>
  /\ UNCHANGED <<sessVars, ctxVars, store, request, sheet>>

CodecNext ==
  \/ \E random \in Randoms : Encode(random)
  \/ Decode
  \/ \E variant \in Variants : DecodeVariant(variant[1], variant[2])

(***************************************************************************)
(* StateManager calls: App saves every state it is given and restores on   *)
(* load; checkpoints are made and restored through the same class.         *)
(***************************************************************************)
MaxStoreTurns == 12

\* a conversation of n turns, each with its own text
Conversation(n) ==
  [i \in 1..n |-> [role |-> IF i % 2 = 1 THEN "user" ELSE "assistant",
                   content |-> <<"turn", ToString(i)>>]]

\* a session in which definition was approved at the first attempt
Practised ==
  LET started == StartedState(createInitialState, "gravity", 100)
      typed == handleFieldUpdate(started, "definition", "it falls down")
      approved == updateFieldStatus(typed, "definition", "approved", "suggestion")
      unlocked == unlockNextField(approved, "definition")[1]
  IN recordAttempt(unlocked, "definition", "it falls down", "approved")

StoreTurns == {0, 3, HISTORY_CAP, MaxStoreTurns}
StoreStates ==
  {createInitialState}
  \cup {[Practised EXCEPT !.conversationHistory = Conversation(n)] : n \in StoreTurns}

\* a record written by an earlier version of the application
OLD_VERSION == "0.9.0"
OldRecord ==
  [compressState([Practised EXCEPT !.conversationHistory = Conversation(3)])
     EXCEPT !.version = OLD_VERSION]

\* a checkpoint written by that earlier version
OldCheckpoint ==
  [timestamp |-> 16, state |-> OldRecord, tokenCount |-> OldRecord.tokenCount]

\* Date.now()
Times == {17, 18}

\* a StateManager call: its argument, whether its write went through, what
\* it returned, whether it raised, and both slots and the state last saved
\* before it
Call(op, arg, ok, returned, raised) ==
  [op |-> op, arg |-> arg, ok |-> ok, returned |-> returned, raised |-> raised,
   storage |-> storage, checkpoint |-> checkpointSlot, saved |-> store[1].saved]

\* the checkpointed state, marked once a different state is saved after it
AfterSave(checkpointed, next, ok) ==
  IF ok /\ checkpointed # <<>> /\ checkpointed[1].state # next
  THEN <<[checkpointed[1] EXCEPT !.savedAfter = TRUE]>>
  ELSE checkpointed

StoreInit ==
  /\ appState \in StoreStates
  /\ storage \in {<<>>, <<OldRecord>>}
  /\ checkpointSlot \in {<<>>, <<OldCheckpoint>>}
  /\ HandlersIdle
  /\ CtxIdle
  /\ CodecIdle
  /\ RequestIdle
  /\ SheetIdle
  /\ store = <<[saved |-> <<>>, checkpointed |-> <<>>, call |-> <<>>]>>

\* setAppState(next), then App's auto-save effect: saveState(appState)
Update(next, ok) ==
  LET save == saveState(next, ok, storage)
  IN /\ appState' = save.state
     /\ storage' = save.slot
     /\ store' = <<[saved |-> IF ok THEN <<next>> ELSE store[1].saved,
                    checkpointed |-> AfterSave(store[1].checkpointed, next, ok),
                    call |-> <<Call("saveState", <<next>>, ok, <<save.returned>>, save.raised)>>]>>
     /\ UNCHANGED <<queue, timers, inflight, research, validatingField, showDemo, checkpointSlot,
                    everApproved, lastDone, ctxVars, codec, request, sheet>>

\* App's initializeApp: restoreState(), setAppState of its result or of a
\* fresh state, then the auto-save effect
Load(ok) ==
  LET restored == restoreState(storage)
      next == IF restored = <<>> THEN createInitialState ELSE restored[1]
      save == saveState(next, ok, storage)
  IN /\ appState' = save.state
     /\ storage' = save.slot
     /\ store' = <<[saved |-> IF ok THEN <<next>> ELSE store[1].saved,
                    checkpointed |-> AfterSave(store[1].checkpointed, next, ok),
                    call |-> <<Call("restoreState", <<>>, ok, restored, FALSE)>>]>>
     /\ UNCHANGED <<queue, timers, inflight, research, validatingField, showDemo, checkpointSlot,
                    everApproved, lastDone, ctxVars, codec, request, sheet>>

\* StateManager.createCheckpoint(appState)
Checkpoint(now, ok) ==
  LET made == createCheckpoint(appState, now, ok, checkpointSlot)
  IN /\ checkpointSlot' = made.slot
     /\ store' = <<[store[1] EXCEPT
                      !.checkpointed = IF ok THEN <<[state |-> appState, savedAfter |-> FALSE]>>
                                       ELSE @,
                      !.call = <<Call("createCheckpoint", <<appState>>, ok, made.returned, FALSE)>>]>>
     /\ UNCHANGED <<appState, queue, timers, inflight, research, validatingField, showDemo, storage,
                    everApproved, lastDone, ctxVars, codec, request, sheet>>

\* StateManager.restoreCheckpoint()
LoadCheckpoint ==
  /\ store' = <<[store[1] EXCEPT
                   !.call = <<Call("restoreCheckpoint", <<>>, TRUE,
                                   restoreCheckpoint(checkpointSlot), FALSE)>>]>>
  /\ UNCHANGED <<sessVars, ctxVars, codec, request, sheet>>

StoreNext ==
  \/ \E next \in StoreStates, ok \in BOOLEAN : Update(next, ok)
  \/ \E ok \in BOOLEAN : Load(ok)
  \/ \E now \in Times, ok \in BOOLEAN : Checkpoint(now, ok)
  \/ LoadCheckpoint

(***************************************************************************)
(* ClaudeService.makeRequest (claudeService.js): the retry loop around     *)
(* client.messages.create.  The run keeps retries, attempt and lastError   *)
(* as the code does, and a log of what it did: every call with its reply   *)
(* and every setTimeout wait with its delay, in order.                     *)
(***************************************************************************)
MaxRetries == 4       \* options.retries is drawn from 1..MaxRetries
DEFAULT_RETRIES == 3

Retries == 1..MaxRetries
\* what client.messages.create does: it resolves, or rejects with an error
ApiErrors == {"overloaded", "timeout", "rate_limited"}
ApiReplies == {"response"} \cup ApiErrors

\* a faulty variant: one more turn of the loop
LoopContinuesInclusive(attempt, retries) == attempt <= retries

\* for (...; attempt < retries; ...)
LoopContinues(attempt, retries) == attempt < retries

\* a faulty variant: the delay grows by one second per attempt
BackoffDelayLinear(attempt) == (attempt + 1) * 1000

\* Math.pow(2, attempt) * 1000
BackoffDelay(attempt) == (2 ^ attempt) * 1000

\* the loop test before an attempt: the next call, or `throw lastError`
EnterAttempt(run) ==
  IF LoopContinues(run.attempt, run.retries)
  THEN [run EXCEPT !.pc = "call"]
  ELSE [run EXCEPT !.pc = "thrown", !.result = run.lastError]

RequestInit ==
  /\ appState = createInitialState
  /\ storage = <<>>
  /\ SessionIdle
  /\ CtxIdle
  /\ CodecIdle
  /\ StoreIdle
  /\ SheetIdle
  /\ \E retries \in Retries :
       request = <<EnterAttempt([retries |-> retries, attempt |-> 0, lastError |-> UNDEFINED,
                                 log |-> <<>>, pc |-> "call", result |-> UNDEFINED])>>

\* await this.client.messages.create(params) settles: the return, or the
\* catch up to its await of the backoff timer (or, without one, up to the
\* next loop test)
Create(reply) ==
  /\ request[1].pc = "call"
  /\ LET run == request[1]
         called == [run EXCEPT !.log = Append(@, [kind |-> "call", reply |-> reply, delay |-> 0])]
     IN request' =
          IF reply = "response"
          THEN <<[called EXCEPT !.pc = "returned", !.result = reply]>>
          ELSE IF run.attempt < run.retries - 1
          THEN <<[called EXCEPT !.lastError = reply, !.pc = "sleep",
                                !.log = Append(@, [kind |-> "wait", reply |-> NULL,
                                                   delay |-> BackoffDelay(run.attempt)])]>>
          ELSE <<EnterAttempt([called EXCEPT !.lastError = reply, !.attempt = @ + 1])>>
  /\ UNCHANGED <<sessVars, ctxVars, codec, store, sheet>>

\* the backoff timer fires: attempt++ and the loop test
BackoffElapsed ==
  /\ request[1].pc = "sleep"
  /\ request' = <<EnterAttempt([request[1] EXCEPT !.attempt = @ + 1])>>
  /\ UNCHANGED <<sessVars, ctxVars, codec, store, sheet>>

RequestNext ==
  \/ \E reply \in ApiReplies : Create(reply)
  \/ BackoffElapsed

(***************************************************************************)
(* What the panes show of a session state: PracticeSheetPane.isComplete    *)
(* (the completion actions) and ProgressTracking.getCompletedCount.        *)
(***************************************************************************)
Statuses == {"pending", "analyzing", "needs_revision", "approved"}

\* a faulty variant: complete as soon as one field is approved
isCompleteSome(state) ==
  \E f \in DOMAIN state.fields : state.fields[f].status = "approved"

\* Object.values(state.fields).every(field => field.status === 'approved')
isComplete(state) ==
  \A f \in DOMAIN state.fields : state.fields[f].status = "approved"

\* fields.filter(field => state.fields[field].status === 'approved').length
getCompletedCount(state) ==
  Cardinality({i \in 1..Len(fieldOrder) : state.fields[fieldOrder[i]].status = "approved"})

\* the session states shown: every field in any status
SheetStates ==
  {[createInitialState EXCEPT
      !.concept = "gravity",
      !.fields = [f \in FieldNames |-> [InitialField(TRUE) EXCEPT !.status = status[f]]]] :
     status \in [FieldNames -> Statuses]}

SheetInit ==
  /\ appState \in SheetStates
  /\ storage = <<>>
  /\ SessionIdle
  /\ CtxIdle
  /\ CodecIdle
  /\ StoreIdle
  /\ RequestIdle
  /\ SheetIdle

\* PracticeSheetPane and ProgressTracking render appState
Render ==
  /\ SheetIdle
  /\ sheet' = <<[state |-> appState, complete |-> isComplete(appState),
                 completed |-> getCompletedCount(appState)]>>
  /\ UNCHANGED <<sessVars, ctxVars, codec, store, request>>

SheetNext == Render

Init == SessionInit /\ CtxIdle /\ CodecIdle /\ StoreIdle /\ RequestIdle /\ SheetIdle
Next == SessionNext
Spec == Init /\ [][Next]_vars

SpecCtx == CtxInit /\ [][CtxNext]_vars
SpecTier == TierInit /\ [][TierNext]_vars
SpecCodec == CodecInit /\ [][CodecNext]_vars
SpecStore == StoreInit /\ [][StoreNext]_vars
SpecRequest == RequestInit /\ [][RequestNext]_vars
SpecSheet == SheetInit /\ [][SheetNext]_vars

\* a session with a concept, as handleStartLearning leaves it
DemoInit ==
  /\ \E concept \in Concepts, tokens \in ResearchTokens :
       appState = StartedState(createInitialState, concept, tokens)
  /\ storage = saveState(appState, TRUE, <<>>).slot
  /\ queue = <<>>
  /\ timers = NoTimers
  /\ inflight = {}
  /\ research = <<>>
  /\ validatingField = NULL
  /\ showDemo = FALSE
  /\ checkpointSlot = <<>>
  /\ everApproved = {}
  /\ lastDone = <<>>
  /\ CtxIdle
  /\ CodecIdle
  /\ StoreIdle
  /\ RequestIdle
  /\ SheetIdle

\* the practice sheet in use while the demo is opened and left
DemoNext ==
  \/ \E f \in FieldNames, v \in Values, enough \in BOOLEAN : Type(f, v, enough)
  \/ \E f \in FieldNames : TimerFire(f)
  \/ \E call \in inflight, reply \in Replies : Resolve(call, reply)
  \/ Flush
  \/ WatchDemo
  \/ \E startLearning \in BOOLEAN : DemoComplete(startLearning)

SpecDemo == DemoInit /\ [][DemoNext]_vars

(***************************************************************************)
(* Claims about the continuation code                                      *)
(***************************************************************************)
Encoded == codec # <<>> /\ codec[1].step \in {"encoded", "decoded", "variant"}
Decoded == codec # <<>> /\ codec[1].step \in {"decoded", "variant"}
VariantDecoded(kinds) ==
  codec # <<>> /\ codec[1].step = "variant" /\ codec[1].variant[1].kind \in kinds
Latin1(str) == \A i \in 1..Len(str) : str[i] <= 255
\* every text of the state encoded is within Latin-1
Latin1State ==
  /\ codec[1].state.concept.t = "str" => Latin1(codec[1].state.concept.s)
  /\ \A i \in 1..Len(codec[1].state.fields) : Latin1(codec[1].state.fields[i][2].value.s)

\* the decoded state equals the encoded one on the essential subset
SameEssential(a, b) ==
  /\ a.version = b.version
  /\ a.concept = b.concept
  /\ a.currentModule = b.currentModule
  /\ a.tokenCount = b.tokenCount
  /\ a.startTime = b.startTime
  /\ Len(a.fields) = Len(b.fields)
  /\ \A i \in 1..Len(a.fields) :
       /\ a.fields[i][1] = b.fields[i][1]
       /\ a.fields[i][2].value = b.fields[i][2].value
       /\ a.fields[i][2].status = b.fields[i][2].status
       /\ a.fields[i][2].unlocked = b.fields[i][2].unlocked

\* C1: for every session state S (any concept, empty and non-ASCII included,
\* any field value/status/unlocked, any tokenCount, startTime and module),
\* encodeState(S) succeeds and decodeState(encodeState(S)) equals S on
\* version, concept, currentModule, tokenCount, startTime and on the value,
\* status and unlocked of every field.
C1_RoundTrip ==
  /\ Encoded => codec[1].encoded.ok
  /\ Decoded => /\ codec[1].decoded.ok
                /\ SameEssential(codec[1].decoded.state[1], codec[1].state)

\* the same, for the states whose texts are all within Latin-1
C1_RoundTripLatin1 ==
  (codec # <<>> /\ Latin1State) => C1_RoundTrip

\* a state with a Latin-1, non-ASCII field value and a hyphenated concept
\* has been encoded and decoded
C1_Latin1Decoded ==
  /\ Decoded
  /\ Latin1State
  /\ codec[1].state.fields[1][2].value.s = <<233, 10>>
  /\ codec[1].state.concept = JStr(<<98, 45>>)

\* C11: a code with the FLS tag whose payload is not the unmodified encoding
\* of a complete essential subset (truncated, or encoding a value with
\* members missing) makes decodeState fail with 'Invalid continuation code';
\* no state comes back.
C11_TamperRejected ==
  VariantDecoded({"truncated", "incomplete"}) => ~codec[1].variant[1].result.ok

\* the characters a truncated code lacks
CutOff ==
  SubSeq(codec[1].encoded.code, Len(codec[1].variant[1].code) + 1,
         Len(codec[1].encoded.code))

\* the part of it that concerns a code cut short by more than its = padding
C11_DataCutRejected ==
  (VariantDecoded({"truncated"}) /\ \E i \in 1..Len(CutOff) : CutOff[i] # 61)
    => ~codec[1].variant[1].result.ok

\* a code cut short by more than its padding has been given to decodeState
C11_DataCutDecoded ==
  VariantDecoded({"truncated"}) /\ \E i \in 1..Len(CutOff) : CutOff[i] # 61

\* C12: a code whose leading tag is not FLS, its payload otherwise valid,
\* makes decodeState fail instead of returning a session state.
C12_WrongTagRejected ==
  VariantDecoded({"tag"}) => ~codec[1].variant[1].result.ok

\* C13: every code encodeState returns, for any concept (null, empty, with
\* digits, punctuation or hyphens), is accepted by validateCode: FLS-, at
\* most 3 uppercase letters, 2 digits, a hyphen, the payload.
C13_CodeHasFormat ==
  (Encoded /\ codec[1].encoded.ok) => validateCode(codec[1].encoded.code)

\* the same, for the concepts that keep at least one character and only
\* ASCII letters once vowels and whitespace are removed
C13_LetterConceptHasFormat ==
  (/\ Encoded
   /\ codec[1].encoded.ok
   /\ ~Falsy(codec[1].state.concept)
   /\ \A i \in 1..Len(codec[1].state.concept.s) :
        \/ 65 <= codec[1].state.concept.s[i] /\ codec[1].state.concept.s[i] <= 90
        \/ 97 <= codec[1].state.concept.s[i] /\ codec[1].state.concept.s[i] <= 122)
  => validateCode(codec[1].encoded.code)

\* the concept gravity has been encoded
C13_GravityEncoded ==
  /\ Encoded
  /\ codec[1].encoded.ok
  /\ codec[1].state.concept = JStr(<<103, 114, 97, 118, 105, 116, 121>>)

\* C14: the human-readable segments carry no decoding semantics.  The final
\* hyphen-separated segment of a code encodeState returns is its whole
\* payload (the payload holds no hyphen), and a code with other segments
\* before the same payload decodes to the same state as the original.
C14_SegmentsCarryNoMeaning ==
  /\ (Encoded /\ codec[1].encoded.ok) =>
       LET payload == btoa(JSONStringify(Essential(codec[1].state)))
       IN /\ LastPart(codec[1].encoded.code) = payload
          /\ \A i \in 1..Len(payload) : payload[i] # 45
  /\ VariantDecoded({"prefix"}) =>
       /\ LastPart(codec[1].variant[1].code) = LastPart(codec[1].encoded.code)
       /\ codec[1].variant[1].result.ok = codec[1].decoded.ok
       /\ codec[1].decoded.ok =>
            SameEssential(codec[1].variant[1].result.state[1], codec[1].decoded.state[1])

\* C14 witness: the code of a hyphenated concept and the same payload behind
\* other segments have both been decoded to a state.
C14_Witness ==
  /\ VariantDecoded({"prefix"})
  /\ codec[1].state.concept = JStr(<<98, 45>>)
  /\ codec[1].variant[1].code # codec[1].encoded.code
  /\ codec[1].decoded.ok
  /\ codec[1].variant[1].result.ok

(***************************************************************************)
(* Claims about the StateManager                                           *)
(***************************************************************************)
Called(ops) == store # <<>> /\ store[1].call # <<>> /\ store[1].call[1].op \in ops
TheCall == store[1].call[1]

\* a freshly created initial state, field by field
IsFresh(state) ==
  /\ state.version = "1.0.0"
  /\ state.concept = NULL
  /\ state.modules = <<>>
  /\ state.currentModule = 0
  /\ state.conversationHistory = <<>>
  /\ state.tokenCount = 0
  /\ state.startTime = NULL
  /\ DOMAIN state.fields = {"definition", "mechanism", "example", "analogy",
                            "why_matters", "misconception", "integration"}
  /\ \A f \in DOMAIN state.fields :
       /\ state.fields[f].value = ""
       /\ state.fields[f].status = "pending"
       /\ state.fields[f].attempts = <<>>
       /\ state.fields[f].unlocked = (f = "definition")

\* C15: restoring a persisted record whose version differs from the running
\* version returns a freshly created initial state; no field of the stored
\* record is carried over.
C15_VersionMismatchFresh ==
  (/\ Called({"restoreState"})
   /\ TheCall.storage # <<>>
   /\ TheCall.storage[1].version # "1.0.0")
  => /\ TheCall.returned # <<>>
     /\ IsFresh(TheCall.returned[1])
     /\ IsFresh(appState)

\* C15 witness: the record of the earlier version, holding an approved
\* definition and three turns, was restored.
C15_Witness ==
  /\ Called({"restoreState"})
  /\ TheCall.storage = <<OldRecord>>
  /\ Len(OldRecord.fields["definition"].attempts) = 1

\* C16: saveState never raises: it returns false when the storage write
\* fails and true when it succeeds, and the session state in memory is the
\* one it was given.
C16_SaveNeverRaises ==
  Called({"saveState"}) =>
    /\ ~TheCall.raised
    /\ TheCall.returned = <<TheCall.ok>>
    /\ appState = TheCall.arg[1]

\* C16 witness: a write failed while a practised session was being saved.
C16_Witness ==
  /\ Called({"saveState"})
  /\ ~TheCall.ok
  /\ TheCall.arg[1].concept = "gravity"
  /\ storage = TheCall.storage

\* C17: saveState(S) followed by restoreState() returns S with modules and
\* every field record unchanged and with the most recent min(10, n) turns of
\* S's history in their original order.
C17_SaveRestore ==
  (Called({"restoreState"}) /\ TheCall.saved # <<>>) =>
    /\ TheCall.returned # <<>>
    /\ LET S == TheCall.saved[1]
           R == TheCall.returned[1]
           n == Len(S.conversationHistory)
           kept == IF n < 10 THEN n ELSE 10
       IN /\ R.modules = S.modules
          /\ R.fields = S.fields
          /\ R.concept = S.concept
          /\ Len(R.conversationHistory) = kept
          /\ \A i \in 1..kept :
               R.conversationHistory[i] = S.conversationHistory[n - kept + i]

\* C17 witness: a state with more than 10 turns and a recorded attempt was
\* saved and restored.
C17_Witness ==
  /\ Called({"restoreState"})
  /\ TheCall.saved # <<>>
  /\ Len(TheCall.saved[1].conversationHistory) > 10
  /\ Len(TheCall.saved[1].fields["definition"].attempts) = 1
  /\ TheCall.returned # <<>>

\* C18: the checkpoint slot is independent of the main save slot.  saveState
\* (App's auto-save, also after a restore) never changes the checkpoint
\* record, createCheckpoint never changes the main record and its record
\* carries the state's tokenCount and a timestamp, and restoreCheckpoint
\* returns the compacted projection of the state last checkpointed, whatever
\* was saved since.
C18_CheckpointIndependent ==
  /\ Called({"saveState", "restoreState"}) => checkpointSlot = TheCall.checkpoint
  /\ Called({"createCheckpoint"}) =>
       /\ storage = TheCall.storage
       /\ TheCall.ok =>
            /\ checkpointSlot # <<>>
            /\ checkpointSlot[1].tokenCount = TheCall.arg[1].tokenCount
            /\ checkpointSlot[1].timestamp \in Times
  /\ (Called({"restoreCheckpoint"}) /\ store[1].checkpointed # <<>>) =>
       TheCall.returned = <<compressState(store[1].checkpointed[1].state)>>

\* C18 witness: a checkpoint of a practised session was restored after a
\* different state had been saved.
C18_Witness ==
  /\ Called({"restoreCheckpoint"})
  /\ store[1].checkpointed # <<>>
  /\ store[1].checkpointed[1].savedAfter
  /\ store[1].checkpointed[1].state.concept = "gravity"
  /\ storage # <<>>
  /\ TheCall.returned # <<>>

(***************************************************************************)
(* Claims about the session                                                *)
(***************************************************************************)
Successor(fieldName) == fieldOrder[indexOf(fieldName) + 1]
IsLast(fieldName) == indexOf(fieldName) = Len(fieldOrder)

\* C2: a field other than definition is unlocked only after its immediate
\* predecessor in the fixed order has had status approved in the session
\* state; definition is unlocked from session creation on.
C2_UnlockOnlyAfterApproval ==
  /\ appState.fields["definition"].unlocked
  /\ \A i \in 2..Len(fieldOrder) :
       appState.fields[fieldOrder[i]].unlocked => fieldOrder[i - 1] \in everApproved

\* C2 witness: an approved verdict has unlocked a field other than definition.
C2_Witness ==
  \E i \in 2..Len(fieldOrder) :
    /\ appState.fields[fieldOrder[i]].unlocked
    /\ fieldOrder[i - 1] \in everApproved

\* C3: once handleFieldValidate has applied all the updates of an approved
\* verdict for field F, F has status approved and, unless F is the last
\* field, its successor is unlocked.
C3_ApprovedVerdictApplied ==
  (lastDone # <<>> /\ queue = <<>> /\ lastDone[1].outcome = "approved") =>
    /\ appState.fields[lastDone[1].field].status = "approved"
    /\ ~IsLast(lastDone[1].field) =>
         appState.fields[Successor(lastDone[1].field)].unlocked

IsPrefix(a, b) == Len(a) <= Len(b) /\ SubSeq(b, 1, Len(a)) = a

\* C19: within a session the attempts of every field are append-only: in
\* every step other than a reset or a new session begun from the demo, each
\* field's attempts before the step are a prefix of its attempts after it.
C19_AttemptsAppendOnly ==
  [][Reset \/ DemoComplete(TRUE) \/ \A f \in FieldNames :
                IsPrefix(appState.fields[f].attempts, appState'.fields[f].attempts)]_vars

\* C20: in every reachable session state, every field whose status is
\* approved is unlocked.
C20_ApprovedIsUnlocked ==
  \A f \in FieldNames : appState.fields[f].status = "approved" => appState.fields[f].unlocked

\* C20 witness: the verdict of a validation has made definition approved
\* while the fields after it are still locked.
C20_Witness ==
  /\ appState.fields["definition"].status = "approved"
  /\ appState.fields["definition"].unlocked
  /\ ~appState.fields["mechanism"].unlocked
  /\ lastDone # <<>>

(***************************************************************************)
(* Claims about the ContextManager                                         *)
(***************************************************************************)
Built == {k \in NewOptions : lastBuild[k] # <<>>}
Sent(k) == lastBuild[k][1].history \o lastBuild[k][1].newMessage
Out(k) == lastBuild[k][1].out
Estimate(k) == estimateTokens(Sent(k))
Ascending == SOFT_THRESHOLD < HARD_THRESHOLD /\ HARD_THRESHOLD < EMERGENCY_THRESHOLD

\* C4: with SOFT < HARD < EMERGENCY, buildContext picks the tier from the
\* estimate t of the outbound messages alone, each lower bound inclusive:
\* t < SOFT returns them unchanged, SOFT <= t < HARD applies Soft,
\* HARD <= t < EMERGENCY applies Hard, t >= EMERGENCY applies Emergency.
C4_TierByEstimate ==
  Ascending =>
    \A k \in Built :
      /\ Estimate(k) < SOFT_THRESHOLD => Out(k) = Sent(k)
      /\ (SOFT_THRESHOLD <= Estimate(k) /\ Estimate(k) < HARD_THRESHOLD)
           => Out(k) = softCompress(Sent(k))
      /\ (HARD_THRESHOLD <= Estimate(k) /\ Estimate(k) < EMERGENCY_THRESHOLD)
           => Out(k) = hardCompress(Sent(k))
      /\ EMERGENCY_THRESHOLD <= Estimate(k) => Out(k) = emergencyCompress(Sent(k))

\* C4 witness: an estimate exactly at SOFT, and the messages were compressed.
C4_Witness ==
  /\ Ascending
  /\ \E k \in Built : Estimate(k) = SOFT_THRESHOLD /\ Out(k) # Sent(k)

InSoftTier(k) == SOFT_THRESHOLD <= Estimate(k) /\ Estimate(k) < HARD_THRESHOLD

\* first 2 turns, one summary turn for the turns strictly between, last 6 turns
SoftShape(sent, out) ==
  /\ Len(out) = 9
  /\ out[1] = sent[1] /\ out[2] = sent[2]
  /\ out[3] = SummaryTurn(SubSeq(sent, 3, Len(sent) - 6))
  /\ \A j \in 1..6 : out[3 + j] = sent[Len(sent) - 6 + j]

\* C5 as stated: in the Soft tier every history of more than 8 turns comes
\* out as its first 2 turns, one summary turn, and its last 6 turns.
C5_SoftAbove8 ==
  Ascending =>
    \A k \in Built : (InSoftTier(k) /\ Len(Sent(k)) > 8) => SoftShape(Sent(k), Out(k))

\* C5 amended: in the Soft tier every history of more than 10 turns comes out
\* as its first 2 turns, one summary turn replacing the turns strictly
\* between, and its last 6 turns in order (length 9); a history of at most 10
\* turns is returned unchanged.
C5_SoftAbove10 ==
  Ascending =>
    \A k \in Built :
      InSoftTier(k) =>
        IF Len(Sent(k)) > 10 THEN SoftShape(Sent(k), Out(k)) ELSE Out(k) = Sent(k)

\* C5 witness: a 20-turn history in the Soft tier was summarised.
C5_Witness ==
  /\ Ascending
  /\ \E k \in Built : InSoftTier(k) /\ Len(Sent(k)) = 20 /\ Len(Out(k)) = 9

Min(a, b) == IF a < b THEN a ELSE b

\* C6: in the Hard tier the output is one synthetic turn carrying the
\* Learning State Snapshot, then exactly the most recent 3 raw turns in
\* their order (all of them when there are fewer than 3).
C6_HardShape ==
  Ascending =>
    \A k \in Built :
      (HARD_THRESHOLD <= Estimate(k) /\ Estimate(k) < EMERGENCY_THRESHOLD) =>
        LET kept == Min(3, Len(Sent(k)))
        IN /\ Len(Out(k)) = 1 + kept
           /\ Out(k)[1] = [role |-> "user",
                           content |-> buildStateContext(extractState(Sent(k)))]
           /\ \A j \in 1..kept : Out(k)[1 + j] = Sent(k)[Len(Sent(k)) - kept + j]

\* C6 witness: the Hard tier was applied to a history of more than 3 turns.
C6_Witness ==
  /\ Ascending
  /\ \E k \in Built :
       /\ HARD_THRESHOLD <= Estimate(k) /\ Estimate(k) < EMERGENCY_THRESHOLD
       /\ Len(Sent(k)) > 3 /\ Len(Out(k)) = 4

\* the Hard tier was applied to fewer than 3 turns
C6_FewTurnsReached ==
  \E k \in Built :
    /\ HARD_THRESHOLD <= Estimate(k) /\ Estimate(k) < EMERGENCY_THRESHOLD
    /\ Len(Sent(k)) < 3

Raw(k) == {Sent(k)[i] : i \in 1..Len(Sent(k))}

\* C7: for an estimate at or above EMERGENCY the output is exactly one turn,
\* the snapshot and no raw turn, and the advisory query for that estimate
\* reports that a checkpoint is due (the flag mustCompress of the advice).
C7_Emergency ==
  \A k \in Built :
    EMERGENCY_THRESHOLD <= Estimate(k) =>
      /\ Len(Out(k)) = 1
      /\ Out(k)[1] \notin Raw(k)
      /\ Out(k)[1].content[1] = "[Context"
      /\ \A i \in 1..Len(lastAdvice) :
           lastAdvice[i].tokenCount = Estimate(k) =>
             /\ lastAdvice[i].advice.mustCompress
             /\ lastAdvice[i].advice.level = "emergency"

\* C7 witness: an emergency compression and the advisory query for its estimate.
C7_Witness ==
  \E k \in Built :
    /\ EMERGENCY_THRESHOLD <= Estimate(k)
    /\ Len(Out(k)) = 1
    /\ lastAdvice # <<>> /\ lastAdvice[1].tokenCount = Estimate(k)
    /\ lastAdvice[1].advice.mustCompress

Rank(level) ==
  CASE level = "normal" -> 0 [] level = "soft" -> 1 [] level = "hard" -> 2 [] OTHER -> 3

\* C8: for token counts t1 < t2, both at or above SOFT, the tier chosen for
\* t2 is at least as aggressive as the tier for t1, whatever the configured
\* thresholds.
C8_TierMonotone ==
  \A i \in 1..Len(lastAdvice), j \in 1..Len(lastAdvice) :
    (/\ lastAdvice[i].tokenCount < lastAdvice[j].tokenCount
     /\ SOFT_THRESHOLD <= lastAdvice[i].tokenCount)
      => Rank(lastAdvice[i].advice.level) <= Rank(lastAdvice[j].advice.level)

\* C8 witness: two queries at or above SOFT, in different tiers, under
\* thresholds that are not in ascending order.
C8_Witness ==
  /\ ~Ascending
  /\ Len(lastAdvice) = 2
  /\ SOFT_THRESHOLD <= lastAdvice[2].tokenCount
  /\ lastAdvice[2].tokenCount < lastAdvice[1].tokenCount
  /\ Rank(lastAdvice[2].advice.level) < Rank(lastAdvice[1].advice.level)

C10_ReadOnly ==
  [][UNCHANGED <<appState, storage, checkpointSlot>>]_vars

\* C10 witness: the Emergency tier was applied to the history with a new
\* message; the history is as passed in and no checkpoint was written.
C10_Witness ==
  \E k \in Built :
    /\ EMERGENCY_THRESHOLD <= Estimate(k)
    /\ lastBuild[k][1].newMessage # <<>>
    /\ appState.conversationHistory = lastBuild[k][1].history
    /\ checkpointSlot = <<>>
    /\ storage = <<compressState(appState)>>
    /\ lastAdvice # <<>>

(***************************************************************************)
(* Claims about ClaudeService.makeRequest                                  *)
(***************************************************************************)
Run == request[1]
CallsOf(log) == SelectSeq(log, LAMBDA e : e.kind = "call")
WaitsOf(log) == SelectSeq(log, LAMBDA e : e.kind = "wait")
Failed(e) == e.kind = "call" /\ e.reply \in ApiErrors

\* C24: makeRequest makes at most `retries` calls to the model API; it
\* returns the response of the first call that succeeds and makes no call
\* after it; once `retries` calls have failed it throws the error of the
\* last of them.
C24_BoundedRetries ==
  LET calls == CallsOf(Run.log)
  IN /\ Len(calls) <= Run.retries
     /\ \A i \in 1..Len(calls) :
          calls[i].reply = "response" => i = Len(calls) /\ Run.pc = "returned"
     /\ Run.pc = "returned" =>
          /\ calls # <<>>
          /\ calls[Len(calls)].reply = "response"
          /\ Run.result = "response"
     /\ Run.pc = "thrown" =>
          /\ Len(calls) = Run.retries
          /\ \A i \in 1..Len(calls) : Failed(calls[i])
          /\ Run.result = calls[Len(calls)].reply
     /\ Run.pc \in {"call", "sleep"} => Len(calls) < Run.retries

\* the default number of calls has failed with different errors and the
\* last error is thrown
C24_Witness ==
  /\ Run.retries = DEFAULT_RETRIES
  /\ Run.pc = "thrown"
  /\ Run.log[1].reply # Run.result

\* C25: a failed call that is not the last one allowed is followed by a wait
\* of 2^k * 1000 ms, k the number of calls that failed before it, and the
\* next call follows that wait; nothing follows the last failed call.
C25_ExponentialBackoff ==
  LET log == Run.log
      waits == WaitsOf(log)
  IN /\ \A k \in 1..Len(waits) : waits[k].delay = (2 ^ (k - 1)) * 1000
     /\ \A k \in 2..Len(waits) : waits[k].delay = 2 * waits[k - 1].delay
     /\ \A i \in 1..Len(log) :
          /\ (Failed(log[i]) /\ Len(CallsOf(SubSeq(log, 1, i))) < Run.retries)
               => i < Len(log) /\ log[i + 1].kind = "wait"
          /\ (Failed(log[i]) /\ Len(CallsOf(SubSeq(log, 1, i))) = Run.retries)
               => i = Len(log)
          /\ (log[i].kind = "wait" /\ i < Len(log)) => log[i + 1].kind = "call"
          /\ log[i].kind = "wait" => i > 1 /\ Failed(log[i - 1])

\* four calls have failed: three waits, none after the last failure
C25_Witness ==
  /\ Run.pc = "thrown"
  /\ Len(WaitsOf(Run.log)) = 3
  /\ Run.log[Len(Run.log)].kind = "call"

(***************************************************************************)
(* Claims about the completion shown                                       *)
(***************************************************************************)
AllApproved(state) == \A i \in 1..Len(fieldOrder) : state.fields[fieldOrder[i]].status = "approved"

\* C28: a session state is shown as complete exactly when each of the seven
\* fields is approved; with one field pending, analyzing or needs_revision
\* it is shown as not complete, and the count of completed fields is seven
\* exactly when it is complete.
C28_CompleteIffAllApproved ==
  sheet # <<>> =>
    /\ sheet[1].complete <=> AllApproved(sheet[1].state)
    /\ sheet[1].complete <=> sheet[1].completed = Len(fieldOrder)
    /\ \A f \in FieldNames :
         sheet[1].state.fields[f].status \in Statuses \ {"approved"} => ~sheet[1].complete

\* a state with all seven fields approved has been shown as complete
C28_Witness ==
  /\ sheet # <<>>
  /\ AllApproved(sheet[1].state)
  /\ sheet[1].complete

(***************************************************************************)
(* Claims about validations in flight                                      *)
(***************************************************************************)
\* the textarea of a field is on the page and enabled
InputEnabled(f) == ~showDemo /\ appState.fields[f].unlocked /\ validatingField # f

\* C21: while a validation of a field is in flight the field's textarea is
\* disabled, so no new attempt for it can be submitted before the verdict.
C21_NoResubmitWhileValidating ==
  \A call \in inflight : ~InputEnabled(call.field)


(***************************************************************************)
(* Claims about validations that fail                                      *)
(***************************************************************************)
\* the validation whose handler ran last has applied all its updates
Done == lastDone # <<>> /\ queue = <<>>

\* C22: once handleFieldValidate has applied all the updates of a validation
\* whose accuracy answer could not be parsed, the field has status pending
\* and its feedback is the generic retry message.
C22_MalformedRevertsToPending ==
  (Done /\ AccuracyAsked(lastDone[1].reply) /\ lastDone[1].reply.accuracy = "unparseable") =>
    /\ appState.fields[lastDone[1].field].status = "pending"
    /\ appState.fields[lastDone[1].field].feedback = RETRY_MESSAGE

\* C23: a validation whose accuracy answer could not be parsed appends no
\* attempt: once it has resolved, the field's attempts in the session state
\* are no more than in the state its handler works from.
C23_MalformedIsNoAttempt ==
  (lastDone # <<>> /\ AccuracyAsked(lastDone[1].reply)
   /\ lastDone[1].reply.accuracy = "unparseable") =>
    Len(appState.fields[lastDone[1].field].attempts)
      <= Len(lastDone[1].state.fields[lastDone[1].field].attempts)

\* C26: once handleFieldValidate has applied the updates of a validation of
\* F that failed (validateField threw, or its accuracy request failed after
\* all retries), F's value in the session state is the text submitted.
C26_FailurePreservesInput ==
  (Done /\ (lastDone[1].outcome = "error"
            \/ (AccuracyAsked(lastDone[1].reply)
                /\ lastDone[1].reply.accuracy = "unavailable"))) =>
    appState.fields[lastDone[1].field].value = lastDone[1].value

\* C27: a field does not stay analyzing: when no handler is running and no
\* validation of the field is in flight, its status is approved,
\* needs_revision or pending.
C27_NoFieldLeftAnalyzing ==
  queue = <<>> =>
    \A f \in FieldNames :
      (\A call \in inflight : call.field # f) =>
        appState.fields[f].status \in {"approved", "needs_revision", "pending"}

\* C29: in every session state tokenCount is a non-negative integer and
\* equals the estimate of the current conversation history.
C29_TokenCountIsEstimate ==
  /\ appState.tokenCount \in Nat
  /\ appState.tokenCount = estimateTokens(appState.conversationHistory)

(***************************************************************************)
(* Claims about the key set of state.fields                                *)
(***************************************************************************)
\* the keys of a fields object as the codec holds it
KeySet(fields) == {fields[i][1] : i \in 1..Len(fields)}
SevenKeys(fields) ==
  /\ Len(fields) = Len(fieldOrder)
  /\ KeySet(fields) = {Units(fieldOrder[i]) : i \in 1..Len(fieldOrder)}

\* C30: every state decodeState returns, for the code encodeState made or
\* for any other code it accepts, has exactly the seven field identifiers
\* as the keys of its fields.
C30_FieldKeysFixed ==
  /\ (Decoded /\ codec[1].decoded.ok) => SevenKeys(codec[1].decoded.state[1].fields)
  /\ (VariantDecoded({"truncated", "incomplete", "tag", "prefix"})
      /\ codec[1].variant[1].result.ok)
       => SevenKeys(codec[1].variant[1].result.state[1].fields)

\* the part of it that concerns the codes encodeState made
C30_OwnCodeKeys ==
  (Decoded /\ codec[1].decoded.ok) => SevenKeys(codec[1].decoded.state[1].fields)

\* the same for the session state: whether created, restored on load, edited,
\* given a verdict or reset, its fields are the seven identifiers
C30_SessionKeys ==
  DOMAIN appState.fields = FieldNames

(***************************************************************************)
(* Claims about the token estimate                                         *)
(***************************************************************************)
\* the number of characters of the turns' texts joined by single spaces
JoinedLength(messages) ==
  IF messages = <<>> THEN 0 ELSE SumText(messages, 1) + (Len(messages) - 1)
\* the same turns said by the other party
OtherRoles(messages) ==
  [i \in 1..Len(messages) |->
     [messages[i] EXCEPT !.role = IF @ = "user" THEN "assistant" ELSE "user"]]

\* C31: the estimate of every message sequence buildContext was called with
\* is a natural number, the least one whose fourfold is at least the length
\* of the joined texts (0 for no messages); it does not depend on the roles,
\* and it is not below the estimate of the sequence without its last turn.
C31_EstimateIsCeiling ==
  \A k \in Built :
    LET est == estimateTokens(Sent(k))
    IN /\ est \in Nat
       /\ CHARS_PER_TOKEN * est >= JoinedLength(Sent(k))
       /\ CHARS_PER_TOKEN * est < JoinedLength(Sent(k)) + CHARS_PER_TOKEN
       /\ Sent(k) = <<>> => est = 0
       /\ estimateTokens(OtherRoles(Sent(k))) = est
       /\ Sent(k) # <<>> => estimateTokens(SubSeq(Sent(k), 1, Len(Sent(k)) - 1)) <= est

\* a sequence whose joined length is no multiple of four, and whose last turn
\* raised the estimate, has been estimated
C31_Witness ==
  \E k \in Built :
    /\ Sent(k) # <<>>
    /\ JoinedLength(Sent(k)) % CHARS_PER_TOKEN # 0
    /\ estimateTokens(SubSeq(Sent(k), 1, Len(Sent(k)) - 1)) < estimateTokens(Sent(k))

(***************************************************************************)
(* Claims about the snapshot                                               *)
(***************************************************************************)
\* some message of the sequence holds the marker
Marked(messages, marker) == \E i \in 1..Len(messages) : Includes(messages[i].content, marker)

\* C32: in the snapshot extractState takes of any message sequence given to
\* buildContext, a marker that no message holds leaves its field as created:
\* concept and currentField null, completedFields and misconceptionsCaught
\* empty, latestAttempt the empty string, approvedCount 0.
C32_MissingMarkersLeaveEmpty ==
  \A k \in Built :
    LET state == extractState(Sent(k))
    IN /\ ~Marked(Sent(k), "Concept:") => state.concept = NULL
       /\ ~Marked(Sent(k), "Field:") =>
            state.currentField = NULL /\ state.completedFields = <<>>
       /\ ~Marked(Sent(k), "APPROVED") =>
            state.approvedCount = 0 /\ state.completedFields = <<>>
       /\ ~Marked(Sent(k), "misconception:") => state.misconceptionsCaught = <<>>
       /\ ~Marked(Sent(k), "attempt:") => state.latestAttempt = ""
       /\ state.totalFields = TOTAL_FIELDS

\* a sequence with approvals but no field or concept marker has been
\* compressed to its snapshot
C32_Witness ==
  \E k \in Built :
    /\ Estimate(k) >= HARD_THRESHOLD
    /\ Marked(Sent(k), "APPROVED")
    /\ ~Marked(Sent(k), "Field:")
    /\ ~Marked(Sent(k), "Concept:")
    /\ extractState(Sent(k)).approvedCount > 0
    /\ Out(k) # Sent(k)

(***************************************************************************)
(* Claims about the automatic checkpoint                                   *)
(***************************************************************************)
\* buildContext has met an estimate at or above the emergency threshold
EmergencyMet == \E k \in Built : Estimate(k) >= EMERGENCY_THRESHOLD

\* C33: once buildContext has met the emergency threshold and returned the
\* emergency context, the checkpoint slot of localStorage holds a checkpoint.
C33_EmergencyCheckpoints ==
  EmergencyMet => checkpointSlot # <<>>

\* no later step makes up for it: no call of the ContextManager and no
\* handler of the session writes the checkpoint slot
C33_SlotNeverWritten ==
  checkpointSlot = <<>>

(***************************************************************************)
(* Claims about the levels of validateField                                *)
(***************************************************************************)
\* C34: for the validation that resolved last: when jargon was found or the
\* simplicity score was below 70, validateField returned needs_revision and
\* made no model request; the requests it made are the ELI5 request, then
\* the accuracy request, the latter only after the ELI5 check passed.
C34_LevelsInOrder ==
  lastDone # <<>> =>
    LET reply == lastDone[1].reply
        requests == RequestsIssued(reply)
    IN /\ reply.local # "passed" =>
            requests = <<>> /\ lastDone[1].outcome = "needs_revision"
       /\ requests \in {<<>>, <<"eli5">>, <<"eli5", "accuracy">>}
       /\ AccuracyAsked(reply) => checkELI5Understanding(reply.eli5).passed

\* the part of it about the requests: no request before the local levels
\* have passed, the accuracy request only after the ELI5 check passed
C34_RequestsInOrder ==
  lastDone # <<>> =>
    LET reply == lastDone[1].reply
        requests == RequestsIssued(reply)
    IN /\ reply.local # "passed" => requests = <<>>
       /\ requests \in {<<>>, <<"eli5">>, <<"eli5", "accuracy">>}
       /\ AccuracyAsked(reply) => checkELI5Understanding(reply.eli5).passed

(***************************************************************************)
(* Claims about what the continuation code depends on                      *)
(***************************************************************************)
\* a state equal to the given one on the essential subset, with an attempt
\* in every field, a module and a turn of conversation
WithPractice(state) ==
  [state EXCEPT
     !.fields = [i \in 1..Len(state.fields) |->
                   <<state.fields[i][1],
                     [state.fields[i][2] EXCEPT
                        !.attempts = <<[value |-> "it falls down", status |-> "approved"]>>]>>],
     !.modules = <<[name |-> "gravity", order |-> 1]>>,
     !.conversationHistory = <<[role |-> "user", content |-> <<"ok">>]>>]

\* C35: a state that differs from the encoded one only in attempts, modules
\* and conversation history is encoded, with any random number, to the same
\* payload, and fails to encode exactly when the encoded one did.
C35_PayloadFromEssentialOnly ==
  (codec # <<>> /\ codec[1].step = "encoded") =>
    \A random \in Randoms :
      LET other == encodeState(WithPractice(codec[1].state), random)
      IN /\ other.ok = codec[1].encoded.ok
         /\ other.ok => LastPart(other.code) = LastPart(codec[1].encoded.code)

\* a started state has been encoded, and the state with practice differs
\* from it
C35_Witness ==
  /\ codec # <<>>
  /\ codec[1].step = "encoded"
  /\ codec[1].encoded.ok
  /\ codec[1].state.tokenCount = JNum(1500)
  /\ WithPractice(codec[1].state) # codec[1].state
  /\ SameEssential(WithPractice(codec[1].state), codec[1].state)

(***************************************************************************)
(* Claims about the order of the locks                                     *)
(***************************************************************************)
\* definition is unlocked, and every field before an unlocked one is unlocked
UnlockedIsPrefix(state) ==
  /\ state.fields[fieldOrder[1]].unlocked
  /\ \A i \in 2..Len(fieldOrder) :
       state.fields[fieldOrder[i]].unlocked => state.fields[fieldOrder[i - 1]].unlocked

\* C36: after every step the unlocked fields are a non-empty prefix of the
\* fixed order, and in every step other than a reset or a new session begun
\* from the demo, a field that was unlocked is still unlocked.
C36_UnlockedPrefixKept ==
  [][/\ UnlockedIsPrefix(appState')
     /\ \/ Reset
        \/ DemoComplete(TRUE)
        \/ \A f \in FieldNames :
             appState.fields[f].unlocked => appState'.fields[f].unlocked]_vars

\* the part of it about single states: the unlocked fields are a non-empty
\* prefix of the fixed order
C36_UnlockedPrefix ==
  UnlockedIsPrefix(appState)

(***************************************************************************)
(* Claims about what a verdict leaves alone                                *)
(***************************************************************************)
\* the updates of the validation that resolved last are being applied
ApplyingVerdict == lastDone # <<>> /\ queue # <<>>

\* C37: every step that applies an update of the verdict of field F leaves
\* the concept, the value of F and the value, status and attempts of every
\* other field as they were before the step, so that they are as in the
\* state that was current when the verdict arrived.
C37_VerdictFrame ==
  [][ApplyingVerdict =>
       /\ appState'.concept = appState.concept
       /\ appState'.fields[lastDone[1].field].value = appState.fields[lastDone[1].field].value
       /\ \A f \in FieldNames \ {lastDone[1].field} :
            /\ appState'.fields[f].value = appState.fields[f].value
            /\ appState'.fields[f].status = appState.fields[f].status
            /\ appState'.fields[f].attempts = appState.fields[f].attempts]_vars

(***************************************************************************)
(* Claims about a verdict that arrives after a reset                       *)
(***************************************************************************)
\* the session as handleReset leaves it
IsReset(state) ==
  /\ state.concept = NULL
  /\ \A f \in FieldNames :
       /\ state.fields[f].value = ""
       /\ state.fields[f].status = "pending"
       /\ state.fields[f].attempts = <<>>
       /\ state.fields[f].unlocked <=> f = fieldOrder[1]

\* C38: when the updates of a verdict are applied to a session that has been
\* reset since the validation began, the session stays as the reset left
\* it: no concept, every field pending and empty, only definition unlocked.
C38_ResetSurvivesVerdict ==
  [][(ApplyingVerdict /\ IsReset(appState)) => IsReset(appState')]_vars

(***************************************************************************)
(* Claims about the version of a restored state                            *)
(***************************************************************************)
\* C39: every non-null state returned by restoreState or by
\* restoreCheckpoint has the running STATE_VERSION, whichever slot it was
\* read from and whichever version wrote the record.
C39_RestoredVersionCurrent ==
  (Called({"restoreState", "restoreCheckpoint"}) /\ TheCall.returned # <<>>)
    => TheCall.returned[1].version = STATE_VERSION

\* the same for restoreState alone
C39_MainSlotVersionCurrent ==
  (Called({"restoreState"}) /\ TheCall.returned # <<>>)
    => TheCall.returned[1].version = STATE_VERSION

(***************************************************************************)
(* Claims about the advisory query and the compression together            *)
(***************************************************************************)
Advice(k) == getCompressionAdvice(Estimate(k))

\* what the tier named by a level makes of the messages
AppliedAs(level, messages) ==
  IF level = "emergency" THEN emergencyCompress(messages)
  ELSE IF level = "hard" THEN hardCompress(messages)
  ELSE IF level = "soft" THEN softCompress(messages)
  ELSE messages

C40_WitnessCompressed ==
  \E k \in Built :
    /\ lastAdvice # <<>>
    /\ lastAdvice[1].tokenCount = Estimate(k)
    /\ lastAdvice[1].advice.level = "hard"
    /\ Out(k) # Sent(k)

====
